---- MODULE Spec2Model ----
(***************************************************************************)
(* Stack fusion engine of saasscan: combineResults of the CLI discover     *)
(* module and the inlined fusion of the web discover route (specification  *)
(* Spec); savings aggregation of the scorer (SpecSavings); fingerprint     *)
(* detection of the CLI and web detect modules (SpecDetect); the batched   *)
(* dispatchers scrapePages, scoreProducts and discoverBulk (SpecBatch);    *)
(* the scan pipelines runStack, runCompany and the web stack route         *)
(* (SpecRun); the autocomplete of the web page (SpecUi).                   *)
(*                                                                         *)
(* Each specification runs one component; the variables of the other       *)
(* components stay at their idle values.                                   *)
(*                                                                         *)
(* Product names are sequences of character codes, so that toLowerCase and *)
(* localeCompare are computed character by character.  The other strings   *)
(* (urls, sources, evidence, categories) are only copied and tested for    *)
(* truthiness by the code and are TLA+ strings.                            *)
(***************************************************************************)
EXTENDS Integers, Sequences, FiniteSets, TLC

VARIABLES variant, detected, inferred, combined, pc, idx, result

\* calculateSavings: arguments, loop position, accumulators, outcome
VARIABLES scores, discountArg, sIdx, totalEstimatedCost, negotiableProducts,
          sPc, summary

\* detectFromWebsite: the module that runs, what the network would answer,
\* the Map of detected products, position, returned list
VARIABLES site, response, dns, dDetected, dPc, dResult

\* a batched dispatcher: which one, its arguments, the loop variable i, the
\* requests in flight, how each request settled and in what order, the
\* results array, position
VARIABLES dispatcher, inputs, concurrencyArg, bI, inFlight, settled, order,
          results, bPc

\* a scan pipeline: which one, the targets it is given, the urls it keeps,
\* the requests it has issued, the arrays it builds, the savings summary,
\* position
VARIABLES runner, targets, urls, requests, scrapeResults, scoreResults,
          allResults, runSavings, rPc

\* the autocomplete of the web page
VARIABLES mode, company, searchProduct, categoryName, debouncedValue,
          suggestions, showSuggestions, selectedIndex, fetches, threw, uPc

fusionVars == <<variant, detected, inferred, combined, pc, idx, result>>

savingsVars == <<scores, discountArg, sIdx, totalEstimatedCost,
                 negotiableProducts, sPc, summary>>

detectVars == <<site, response, dns, dDetected, dPc, dResult>>

batchVars == <<dispatcher, inputs, concurrencyArg, bI, inFlight, settled,
               order, results, bPc>>

runVars == <<runner, targets, urls, requests, scrapeResults, scoreResults,
             allResults, runSavings, rPc>>

uiVars == <<mode, company, searchProduct, categoryName, debouncedValue,
            suggestions, showSuggestions, selectedIndex, fetches, threw, uPc>>

vars == <<fusionVars, savingsVars, detectVars, batchVars, runVars, uiVars>>

(***************************************************************************)
(* Bounds                                                                  *)
(***************************************************************************)
MaxInferred == 2

(***************************************************************************)
(* JavaScript values                                                       *)
(***************************************************************************)
Undefined == "undefined"
Null == "null"

\* ToBoolean on an optional string: undefined, null and "" are falsy.
Truthy(v) == v \notin {Undefined, Null, ""}

\* a || b
OrElse(a, b) == IF Truthy(a) THEN a ELSE b

Min(a, b) == IF a <= b THEN a ELSE b

SetMin(S) == CHOOSE x \in S : \A y \in S : x <= y

(***************************************************************************)
(* Names                                                                   *)
(***************************************************************************)
Cloudflare == <<67, 108, 111, 117, 100, 102, 108, 97, 114, 101>>
cloudflare == <<99, 108, 111, 117, 100, 102, 108, 97, 114, 101>>
Monday     == <<77, 111, 110, 100, 97, 121>>
MondayCom  == <<77, 111, 110, 100, 97, 121, 46, 99, 111, 109>>

IsUpper(c) == c \in 65..90

\* String.prototype.toLowerCase on ASCII text
ToLowerCase(s) == [i \in DOMAIN s |-> IF IsUpper(s[i]) THEN s[i] + 32 ELSE s[i]]

\* lexicographic comparison of two integer sequences: -1, 0 or 1
LexCompare(x, y) ==
  LET n == Min(Len(x), Len(y))
      diffs == {i \in 1..n : x[i] # y[i]}
  IN IF diffs # {}
       THEN LET i == SetMin(diffs) IN IF x[i] < y[i] THEN -1 ELSE 1
       ELSE IF Len(x) < Len(y) THEN -1
       ELSE IF Len(x) > Len(y) THEN 1
       ELSE 0

\* collation keys: the letter without its case, then the case (lower first)
PrimaryKey(s) == ToLowerCase(s)
TertiaryKey(s) == [i \in DOMAIN s |-> IF IsUpper(s[i]) THEN 1 ELSE 0]

\* String.prototype.localeCompare in the default collation, on ASCII
\* letters and punctuation: base letters decide first, case breaks ties.
LocaleCompare(a, b) ==
  LET p == LexCompare(PrimaryKey(a), PrimaryKey(b))
  IN IF p # 0 THEN p ELSE LexCompare(TertiaryKey(a), TertiaryKey(b))

(***************************************************************************)
(* Catalogs                                                                *)
(***************************************************************************)
\* PRODUCT_URLS[name] of the web detect module; undefined when absent
WEB_PRODUCT_URLS(name) ==
  IF name = Cloudflare THEN "https://cloudflare.com"
  ELSE Undefined

\* PRODUCT_URLS[name] of the CLI detect module; undefined when absent
PRODUCT_URLS(name) ==
  IF name = Cloudflare THEN "https://cloudflare.com"
  ELSE IF name = MondayCom THEN "https://monday.com"
  ELSE Undefined

\* the catalog of the module that runs: CLI detect or web detect
CatalogUrl(v, name) == IF v = "cli" THEN PRODUCT_URLS(name) ELSE WEB_PRODUCT_URLS(name)

\* getProductCategory
getProductCategory(name) ==
  IF name = Cloudflare THEN "Infrastructure"
  ELSE IF name = MondayCom THEN "Project Management"
  ELSE "Other"

(***************************************************************************)
(* Map: entries in insertion order; set on a present key keeps its place   *)
(***************************************************************************)
MapHas(m, k) == \E j \in 1..Len(m) : m[j].key = k

MapIndex(m, k) == CHOOSE j \in 1..Len(m) : m[j].key = k

MapGet(m, k) == m[MapIndex(m, k)].val

MapSet(m, k, v) ==
  IF MapHas(m, k)
    THEN [m EXCEPT ![MapIndex(m, k)] = [key |-> k, val |-> v]]
    ELSE Append(m, [key |-> k, val |-> v])

MapValues(m) == [j \in 1..Len(m) |-> m[j].val]

MapKeys(m) == {m[j].key : j \in 1..Len(m)}

(***************************************************************************)
(* Comparators                                                             *)
(***************************************************************************)
\* (a, b) => b.score - a.score
CompareScore(a, b) == b.score - a.score

confidenceOrder(c) == IF c = "high" THEN 0 ELSE IF c = "medium" THEN 1 ELSE 2

\* variant of CompareCombined: confidence only, no tie-break by name
CompareCombined_NoName(a, b) ==
  confidenceOrder(a.confidence) - confidenceOrder(b.confidence)

\* variant of CompareCombined: the names compared the wrong way round
CompareCombined_NameSwapped(a, b) ==
  LET diff == confidenceOrder(a.confidence) - confidenceOrder(b.confidence)
  IN IF diff # 0 THEN diff ELSE LocaleCompare(b.name, a.name)

\* comparator of combineResults: confidence, then name
CompareCombined(a, b) ==
  LET diff == confidenceOrder(a.confidence) - confidenceOrder(b.confidence)
  IN IF diff # 0 THEN diff ELSE LocaleCompare(a.name, b.name)

\* order[c] || 2 of the route: 0 is falsy, so "high" counts as 2
WebOrder(c) == IF confidenceOrder(c) # 0 THEN confidenceOrder(c) ELSE 2

\* comparator of the route: confidence only
CompareWeb(a, b) == WebOrder(a.confidence) - WebOrder(b.confidence)

(***************************************************************************)
(* Array.prototype.sort: stable, by insertion after every element that     *)
(* does not compare greater                                                *)
(***************************************************************************)
\* a.score?.vulnerability_score ?? 0 on an entry of the web stack route
VulnerabilityOrZero(e) ==
  IF "score" \in DOMAIN e /\ e.score # <<>> /\ e.score[1].vulnerability_score # <<>>
    THEN e.score[1].vulnerability_score[1]
    ELSE 0

\* (a, b) => scoreB - scoreA of the web stack route
CompareVulnerability(a, b) == VulnerabilityOrZero(b) - VulnerabilityOrZero(a)

\* the comparator passed at each call site
Compare(by, a, b) ==
  IF by = "score" THEN CompareScore(a, b)
  ELSE IF by = "cli" THEN CompareCombined(a, b)
  ELSE IF by = "vulnerability" THEN CompareVulnerability(a, b)
  ELSE CompareWeb(a, b)

InsertSorted(t, x, by) ==
  LET n == Cardinality({j \in 1..Len(t) : \A l \in 1..j : Compare(by, t[l], x) <= 0})
  IN SubSeq(t, 1, n) \o <<x>> \o SubSeq(t, n + 1, Len(t))

ArraySort(s, by) ==
  LET F[k \in 0..Len(s)] == IF k = 0 THEN <<>> ELSE InsertSorted(F[k - 1], s[k], by)
  IN F[Len(s)]

(***************************************************************************)
(* Inputs of fusion                                                        *)
(***************************************************************************)
Confidence == {"high", "medium", "low"}

Variants == {"cli", "web"}

\* products of the fingerprint catalog that the model detects, in catalog
\* order: the web catalog has no "Monday.com"
CatalogNames(v) == IF v = "cli" THEN <<Cloudflare, MondayCom>> ELSE <<Cloudflare>>

\* scores the rules of a product can add up to: Cloudflare has a script
\* rule (40) and a header rule (25), Monday.com a script rule
DetectionScores(name) == IF name = Cloudflare THEN {25, 40, 65} ELSE {40}

DetectionEvidence(name, score) ==
  IF name = Cloudflare
    THEN IF score = 25 THEN <<"header: cf-ray">>
         ELSE IF score = 40 THEN <<"script: https://cdnjs.cloudflare.com/a.js">>
         ELSE <<"script: https://cdnjs.cloudflare.com/a.js", "header: cf-ray">>
    ELSE <<"script: https://cdn.monday.com/forms.js">>

\* the record detectFromWebsite sets for a product, with its category
DetectedProduct(v, name, score) ==
  [name |-> name,
   confidence |-> IF score >= 60 THEN "high" ELSE IF score >= 30 THEN "medium" ELSE "low",
   score |-> Min(score, 100),
   evidence |-> DetectionEvidence(name, score),
   url |-> OrElse(CatalogUrl(v, name), Null),
   category |-> getProductCategory(name),
   source |-> "website_detection"]

\* what detectFromWebsite can return: the matched products in catalog
\* order, sorted by descending score
DetectedLists(v) ==
  LET names == CatalogNames(v)
      Outcomes == {f \in [1..Len(names) -> {0, 25, 40, 65}] :
                     \A j \in 1..Len(names) :
                        f[j] \in DetectionScores(names[j]) \cup {0}}
      Matched(f) == SelectSeq([j \in 1..Len(names) |->
                                 [name |-> names[j], score |-> f[j]]],
                              LAMBDA e : e.score > 0)
      Products(f) == [j \in 1..Len(Matched(f)) |->
                        DetectedProduct(v, Matched(f)[j].name, Matched(f)[j].score)]
  IN {ArraySort(Products(f), "score") : f \in Outcomes}

InferredNames == {Cloudflare, cloudflare, Monday, MondayCom}

\* the optional fields of a product of the language model's answer
InferredShapes ==
  {[category |-> "DevOps", url |-> "https://vendor.example",
    source |-> "job posting", evidence |-> "listed in the requirements"],
   [category |-> "CRM", url |-> Undefined,
    source |-> "G2 case study", evidence |-> Undefined]}

InferredProducts ==
  {[name |-> n, category |-> s.category, url |-> s.url, confidence |-> c,
    source |-> s.source, evidence |-> s.evidence] :
     n \in InferredNames, c \in Confidence, s \in InferredShapes}

SeqsUpTo(S, n) == UNION {[1..k -> S] : k \in 0..n}

InferredLists == SeqsUpTo(InferredProducts, MaxInferred)

(***************************************************************************)
(* Fusion: the steps of combineResults (CLI) and of the discover route     *)
(***************************************************************************)
\* variant of SeedRecord: the sources list starts empty
SeedRecord_NoSource(product) ==
  [name |-> product.name,
   category |-> product.category,
   url |-> product.url,
   confidence |-> product.confidence,
   sources |-> <<>>,
   evidence |-> product.evidence]

\* variant of SeedRecord: detected products are seeded with high priority
SeedRecord_HighPriority(product) ==
  [name |-> product.name,
   category |-> product.category,
   url |-> product.url,
   confidence |-> "high",
   sources |-> <<"website_detection">>,
   evidence |-> product.evidence]

\* the record seeded for a detected product
SeedRecord(product) ==
  [name |-> product.name,
   category |-> product.category,
   url |-> product.url,
   confidence |-> product.confidence,
   sources |-> <<"website_detection">>,
   evidence |-> product.evidence]

\* combined.set(product.name.toLowerCase(), {...}) of the first loop
SeedStep(m, product) == MapSet(m, ToLowerCase(product.name), SeedRecord(product))

\* variant of MergeExisting: keeps the stronger of the two confidences
\* instead of escalating to "high"
MergeExisting_KeepStronger(existing, product) ==
  [existing EXCEPT !.confidence = IF "high" \in {@, product.confidence} THEN "high"
                                  ELSE IF "medium" \in {@, product.confidence} THEN "medium"
                                  ELSE "low",
                   !.sources = Append(@, product.source),
                   !.evidence = IF Truthy(product.evidence)
                                  THEN Append(@, product.evidence)
                                  ELSE @]

\* variant of MergeExisting: takes the confidence of the inferred product
MergeExisting_TakeInferred(existing, product) ==
  [existing EXCEPT !.confidence = product.confidence,
                   !.sources = Append(@, product.source),
                   !.evidence = IF Truthy(product.evidence)
                                  THEN Append(@, product.evidence)
                                  ELSE @]

\* variant of MergeExisting: the inferred source is put first and the url
\* of the inferred product fills in
MergeExisting_SourceFirst(existing, product) ==
  [existing EXCEPT !.confidence = "high",
                   !.url = OrElse(product.url, @),
                   !.sources = <<product.source>> \o @,
                   !.evidence = IF Truthy(product.evidence)
                                  THEN Append(@, product.evidence)
                                  ELSE @]

\* the branch taken when the key is already in the map
MergeExisting(existing, product) ==
  [existing EXCEPT !.confidence = "high",
                   !.sources = Append(@, product.source),
                   !.evidence = IF Truthy(product.evidence)
                                  THEN Append(@, product.evidence)
                                  ELSE @]

\* url of an inserted record: the CLI falls back to the catalog url, the
\* route does not
InsertUrl(v, product) ==
  IF v = "cli"
    THEN OrElse(OrElse(product.url, PRODUCT_URLS(product.name)), Null)
    ELSE OrElse(product.url, Null)

\* variant of InsertRecord: an uncorroborated inference is entered as "low"
InsertRecord_Distrust(v, product) ==
  [name |-> product.name,
   category |-> product.category,
   url |-> InsertUrl(v, product),
   confidence |-> "low",
   sources |-> <<product.source>>,
   evidence |-> IF Truthy(product.evidence) THEN <<product.evidence>> ELSE <<>>]

\* the branch taken when the key is not in the map
InsertRecord(v, product) ==
  [name |-> product.name,
   category |-> product.category,
   url |-> InsertUrl(v, product),
   confidence |-> product.confidence,
   sources |-> <<product.source>>,
   evidence |-> IF Truthy(product.evidence) THEN <<product.evidence>> ELSE <<>>]

\* variant of MergeStep: the key is the name as given, not lowercased
MergeStep_RawKey(v, m, product) ==
  LET key == product.name
  IN IF MapHas(m, key)
       THEN MapSet(m, key, MergeExisting(MapGet(m, key), product))
       ELSE MapSet(m, key, InsertRecord(v, product))

\* variant of MergeStep: a present key is overwritten by the inferred record
MergeStep_Overwrite(v, m, product) ==
  MapSet(m, ToLowerCase(product.name), InsertRecord(v, product))

\* one iteration of the second loop
MergeStep(v, m, product) ==
  LET key == ToLowerCase(product.name)
  IN IF MapHas(m, key)
       THEN MapSet(m, key, MergeExisting(MapGet(m, key), product))
       ELSE MapSet(m, key, InsertRecord(v, product))

SortValues(v, m) == ArraySort(MapValues(m), v)

\* the map after the first loop and the first n iterations of the second
Seeded(d) ==
  LET F[k \in 0..Len(d)] == IF k = 0 THEN <<>> ELSE SeedStep(F[k - 1], d[k])
  IN F[Len(d)]

Merged(v, d, i, n) ==
  LET F[k \in 0..n] == IF k = 0 THEN Seeded(d) ELSE MergeStep(v, F[k - 1], i[k])
  IN F[n]

\* combineResults(detected, inferred)
combineResults(d, i) == SortValues("cli", Merged("cli", d, i, Len(i)))

(***************************************************************************)
(* State machine                                                           *)
(***************************************************************************)
\* combineResults is not running
IdleFusion ==
  /\ variant = "cli"
  /\ detected = <<>>
  /\ inferred = <<>>
  /\ combined = <<>>
  /\ pc = "idle"
  /\ idx = 1
  /\ result = <<>>

\* calculateSavings is not running
IdleSavings ==
  /\ scores = <<>>
  /\ discountArg = <<>>
  /\ sIdx = 1
  /\ totalEstimatedCost = 0
  /\ negotiableProducts = 0
  /\ sPc = "idle"
  /\ summary = <<>>

\* detectFromWebsite is not running
IdleDetect ==
  /\ site = "cli"
  /\ response = <<>>
  /\ dns = <<>>
  /\ dDetected = <<>>
  /\ dPc = "idle"
  /\ dResult = <<>>

\* no dispatcher is running
IdleBatch ==
  /\ dispatcher = "scrapePages"
  /\ inputs = <<>>
  /\ concurrencyArg = <<>>
  /\ bI = 0
  /\ inFlight = {}
  /\ settled = <<>>
  /\ order = <<>>
  /\ results = <<>>
  /\ bPc = "idle"

\* no scan pipeline is running
IdleRun ==
  /\ runner = "runStack"
  /\ targets = <<>>
  /\ urls = <<>>
  /\ requests = 0
  /\ scrapeResults = <<>>
  /\ scoreResults = <<>>
  /\ allResults = <<>>
  /\ runSavings = <<>>
  /\ rPc = "idle"

\* the page is not mounted
IdleUi ==
  /\ mode = "discover"
  /\ company = ""
  /\ searchProduct = ""
  /\ categoryName = ""
  /\ debouncedValue = ""
  /\ suggestions = <<>>
  /\ showSuggestions = FALSE
  /\ selectedIndex = -1
  /\ fetches = 0
  /\ threw = FALSE
  /\ uPc = "unmounted"

Init ==
  /\ variant \in Variants
  /\ detected \in DetectedLists(variant)
  /\ inferred \in InferredLists
  /\ combined = <<>>
  /\ pc = "seed"
  /\ idx = 1
  /\ result = <<>>
  /\ IdleSavings
  /\ IdleDetect
  /\ IdleBatch
  /\ IdleRun
  /\ IdleUi

\* for (const product of detected) combined.set(...)
SeedDetected ==
  /\ pc = "seed"
  /\ idx <= Len(detected)
  /\ combined' = SeedStep(combined, detected[idx])
  /\ idx' = idx + 1
  /\ UNCHANGED <<variant, detected, inferred, pc, result>>
  /\ UNCHANGED <<savingsVars, detectVars, batchVars, runVars, uiVars>>

\* the first loop ends, the second starts
SeedEnd ==
  /\ pc = "seed"
  /\ idx > Len(detected)
  /\ pc' = "merge"
  /\ idx' = 1
  /\ UNCHANGED <<variant, detected, inferred, combined, result>>
  /\ UNCHANGED <<savingsVars, detectVars, batchVars, runVars, uiVars>>

\* index of the detected product whose evidence array the record of key k
\* shares (the seed stores product.evidence itself), 0 if none
SharedEvidence(d, k) ==
  IF \E j \in 1..Len(d) : ToLowerCase(d[j].name) = k
    THEN CHOOSE j \in 1..Len(d) :
           /\ ToLowerCase(d[j].name) = k
           /\ \A l \in 1..Len(d) : ToLowerCase(d[l].name) = k => l <= j
    ELSE 0

\* for (const product of inferred) { ... }: the route pushes onto the
\* evidence array it shares with the detected product, combineResults
\* builds a new array
MergeInferred ==
  /\ pc = "merge"
  /\ idx <= Len(inferred)
  /\ LET product == inferred[idx]
         key == ToLowerCase(product.name)
         j == SharedEvidence(detected, key)
     IN /\ combined' = MergeStep(variant, combined, product)
        /\ detected' = IF variant = "web" /\ j > 0 /\ Truthy(product.evidence)
                         THEN [detected EXCEPT ![j].evidence = Append(@, product.evidence)]
                         ELSE detected
  /\ idx' = idx + 1
  /\ UNCHANGED <<variant, inferred, pc, result>>
  /\ UNCHANGED <<savingsVars, detectVars, batchVars, runVars, uiVars>>

\* Array.from(combined.values()).sort(...)
SortCombined ==
  /\ pc = "merge"
  /\ idx > Len(inferred)
  /\ result' = SortValues(variant, combined)
  /\ pc' = "done"
  /\ UNCHANGED <<variant, detected, inferred, combined, idx>>
  /\ UNCHANGED <<savingsVars, detectVars, batchVars, runVars, uiVars>>

Next == SeedDetected \/ SeedEnd \/ MergeInferred \/ SortCombined

Spec == Init /\ [][Next]_vars

(***************************************************************************)
(* Helpers of the properties                                               *)
(***************************************************************************)
KeysOf(s) == {ToLowerCase(s[j].name) : j \in 1..Len(s)}

DistinctKeys(s) ==
  \A j, k \in 1..Len(s) : j # k => ToLowerCase(s[j].name) # ToLowerCase(s[k].name)

KeyConfidence(out) ==
  {<<ToLowerCase(out[j].name), out[j].confidence>> : j \in 1..Len(out)}

Reorderings(s) ==
  {[j \in 1..Len(s) |-> s[f[j]]] : f \in Permutations(1..Len(s))}

(***************************************************************************)
(* Properties of fusion                                                    *)
(***************************************************************************)
\* C1: every product whose lowercase name occurs in both the detected and
\* the inferred list has exactly the confidence "high" in the fused output,
\* whatever confidence the two entries carried.
C1_Corroboration ==
  pc = "done" =>
    \A j \in 1..Len(detected), k \in 1..Len(inferred) :
      ToLowerCase(detected[j].name) = ToLowerCase(inferred[k].name) =>
        /\ \E r \in 1..Len(result) :
             ToLowerCase(result[r].name) = ToLowerCase(detected[j].name)
        /\ \A r \in 1..Len(result) :
             ToLowerCase(result[r].name) = ToLowerCase(detected[j].name) =>
               result[r].confidence = "high"

\* a low detection corroborated by a low inference has been fused
C1_Witness ==
  /\ pc = "done"
  /\ \E j \in 1..Len(detected), k \in 1..Len(inferred), r \in 1..Len(result) :
       /\ ToLowerCase(detected[j].name) = ToLowerCase(inferred[k].name)
       /\ detected[j].confidence = "low"
       /\ inferred[k].confidence = "low"
       /\ result[r].name = detected[j].name
       /\ result[r].confidence = "high"

\* C2 as stated: for every detected list and every reordering of the
\* inferred list, also one in which two entries share a lowercase name,
\* combineResults returns the identical list (same records, same fields,
\* same order).
C2_CommutativeAnyInferred ==
  (pc = "done" /\ variant = "cli") =>
    \A p \in Reorderings(inferred) : combineResults(detected, p) = result

\* C2 amended: for every detected list and every reordering of an inferred
\* list whose entries have pairwise distinct lowercase names,
\* combineResults returns the identical list; when entries share a
\* lowercase name, the reordered outputs still hold the same lowercase
\* names with the same confidence levels.
C2_CommutativeDistinctKeys ==
  (pc = "done" /\ variant = "cli") =>
    \A p \in Reorderings(inferred) :
      /\ DistinctKeys(inferred) => combineResults(detected, p) = result
      /\ KeyConfidence(combineResults(detected, p)) = KeyConfidence(result)

\* two inferred products of different keys were fused with a detected one,
\* and the sort moved records away from their insertion order
C2_Witness ==
  /\ pc = "done"
  /\ variant = "cli"
  /\ Len(inferred) >= 2
  /\ DistinctKeys(inferred)
  /\ detected # <<>>
  /\ result # MapValues(combined)
  /\ \E j, k \in 1..Len(inferred) : j # k /\ inferred[j].confidence = inferred[k].confidence

\* C3: the list returned by combineResults is ascending by confidence rank
\* (high=0, medium=1, low=2) and, among equal confidence, by name.
C3_Sorted ==
  (pc = "done" /\ variant = "cli") =>
    \A j \in 1..(Len(result) - 1) :
      LET a == result[j]
          b == result[j + 1]
      IN \/ confidenceOrder(a.confidence) < confidenceOrder(b.confidence)
         \/ /\ confidenceOrder(a.confidence) = confidenceOrder(b.confidence)
            /\ LocaleCompare(a.name, b.name) <= 0

\* a sorted output in which the sort changed the insertion order and two
\* neighbours of equal confidence are ordered by name only
C3_Witness ==
  /\ pc = "done"
  /\ variant = "cli"
  /\ Len(result) >= 3
  /\ result # MapValues(combined)
  /\ \E j \in 1..(Len(result) - 1) :
       /\ result[j].confidence = result[j + 1].confidence
       /\ LocaleCompare(result[j].name, result[j + 1].name) < 0
  /\ \E j \in 1..(Len(result) - 1) : result[j].confidence # result[j + 1].confidence

\* C4: the output of combineResults holds exactly one record for each
\* distinct lowercase name of detected or inferred; no two records have
\* names equal after lowercasing, and names that differ after lowercasing
\* are never merged.
C4_OneRecordPerKey ==
  (pc = "done" /\ variant = "cli") =>
    /\ KeysOf(result) = KeysOf(detected) \cup KeysOf(inferred)
    /\ Len(result) = Cardinality(KeysOf(detected) \cup KeysOf(inferred))
    /\ DistinctKeys(result)

\* "Monday.com" and "Monday" are both in the output, and two entries of
\* the same lowercase name were merged into one record
C4_Witness ==
  /\ pc = "done"
  /\ variant = "cli"
  /\ \E j, k \in 1..Len(result) : result[j].name = Monday /\ result[k].name = MondayCom
  /\ Len(result) < Len(detected) + Len(inferred)
  /\ detected # <<>>

\* C5: after every step of fusion every record of the map has at least one
\* source, and no step shortens the sources of a record.
C5_SourcesNonEmpty ==
  [][\A k \in MapKeys(combined') :
       /\ Len(MapGet(combined', k).sources) >= 1
       /\ k \in MapKeys(combined) =>
            Len(MapGet(combined', k).sources) >= Len(MapGet(combined, k).sources)]_vars

\* a record that two inferred products were merged into
C5_Witness ==
  /\ pc = "merge"
  /\ \E j \in 1..Len(combined) : Len(combined[j].val.sources) >= 3

\* C6: no step of fusion replaces the confidence of a record by a weaker
\* one: the rank of every key only moves toward "high" or stays.
C6_NeverDowngraded ==
  [][\A k \in MapKeys(combined) :
       /\ k \in MapKeys(combined')
       /\ confidenceOrder(MapGet(combined', k).confidence)
            <= confidenceOrder(MapGet(combined, k).confidence)]_vars

\* a record seeded low that a low inferred product raised to high, and a
\* record seeded high that a low inferred product was merged into
C6_Witness ==
  /\ pc = "merge"
  /\ idx > 1
  /\ \E j \in 1..Len(detected) :
       /\ ToLowerCase(detected[j].name) \in MapKeys(combined)
       /\ inferred[idx - 1].confidence = "low"
       /\ ToLowerCase(inferred[idx - 1].name) = ToLowerCase(detected[j].name)
       /\ detected[j].confidence \in {"low", "high"}
       /\ MapGet(combined, ToLowerCase(detected[j].name)).confidence = "high"

\* C7: when the lowercase name of an inferred product is already in the
\* map, the record keeps its name, category and url, the inferred source
\* is appended at the end of sources, and the inferred evidence is
\* appended to evidence if and only if it is present.
C7_MergeExistingKeepsIdentity ==
  [][(pc = "merge" /\ idx <= Len(inferred)
        /\ MapHas(combined, ToLowerCase(inferred[idx].name))) =>
       LET product == inferred[idx]
           old == MapGet(combined, ToLowerCase(product.name))
           new == MapGet(combined', ToLowerCase(product.name))
       IN /\ new.name = old.name
          /\ new.category = old.category
          /\ new.url = old.url
          /\ new.sources = Append(old.sources, product.source)
          /\ new.evidence = IF product.evidence \in {Undefined, Null, ""}
                              THEN old.evidence
                              ELSE Append(old.evidence, product.evidence)]_vars

\* a detected product corroborated once by an inferred product of another
\* spelling, category and url, with evidence
C7_Witness ==
  /\ pc = "merge"
  /\ \E j \in 1..Len(combined) :
       LET r == combined[j].val
       IN /\ r.name = Cloudflare
          /\ r.category = "Infrastructure"
          /\ r.url = "https://cloudflare.com"
          /\ r.sources = <<"website_detection", "job posting">>
          /\ Len(r.evidence) >= 2
          /\ r.evidence[Len(r.evidence)] = "listed in the requirements"
  /\ idx > 1
  /\ inferred[idx - 1].name = cloudflare

\* C8 as stated: when the lowercase name of an inferred product is not yet
\* in the map, the inserted record has the inferred name, category and
\* confidence, sources = [source], evidence = [evidence] if present else
\* [], and url = the inferred url if present, otherwise the catalog url of
\* the product, otherwise null, in the CLI fusion and in the web route.
C8_InsertVerbatimWithCatalogUrl ==
  [][(pc = "merge" /\ idx <= Len(inferred)
        /\ ~MapHas(combined, ToLowerCase(inferred[idx].name))) =>
       LET product == inferred[idx]
           new == MapGet(combined', ToLowerCase(product.name))
       IN /\ MapHas(combined', ToLowerCase(product.name))
          /\ new.name = product.name
          /\ new.category = product.category
          /\ new.confidence = product.confidence
          /\ new.sources = <<product.source>>
          /\ new.evidence = IF product.evidence \in {Undefined, Null, ""}
                              THEN <<>>
                              ELSE <<product.evidence>>
          /\ new.url = IF product.url \notin {Undefined, Null, ""}
                         THEN product.url
                         ELSE IF CatalogUrl(variant, product.name) # Undefined
                                THEN CatalogUrl(variant, product.name)
                                ELSE Null]_vars

\* C9 as stated: with an empty detected list the output of combineResults
\* holds one record per inferred entry, each the record of the "key does
\* not exist" branch with the entry's own confidence and one source, for
\* every inferred list.
C9_EmptyDetectedAnyInferred ==
  (pc = "done" /\ variant = "cli" /\ detected = <<>>) =>
    \E f \in Permutations(1..Len(inferred)) :
      /\ Len(result) = Len(inferred)
      /\ \A j \in 1..Len(inferred) :
           /\ result[j].name = inferred[f[j]].name
           /\ result[j].category = inferred[f[j]].category
           /\ result[j].confidence = inferred[f[j]].confidence
           /\ result[j].sources = <<inferred[f[j]].source>>

\* C9 amended: with an empty detected list and an inferred list whose
\* entries have pairwise distinct lowercase names, the output of
\* combineResults holds one record per inferred entry, each the record of
\* the "key does not exist" branch with the entry's own confidence and one
\* source, in the sorted order of the engine.
C9_EmptyDetectedDistinctKeys ==
  (pc = "done" /\ variant = "cli" /\ detected = <<>> /\ DistinctKeys(inferred)) =>
    \E f \in Permutations(1..Len(inferred)) :
      /\ Len(result) = Len(inferred)
      /\ \A j \in 1..Len(inferred) :
           /\ result[j].name = inferred[f[j]].name
           /\ result[j].category = inferred[f[j]].category
           /\ result[j].confidence = inferred[f[j]].confidence
           /\ result[j].sources = <<inferred[f[j]].source>>
           /\ result[j].evidence = IF inferred[f[j]].evidence \in {Undefined, Null, ""}
                                     THEN <<>>
                                     ELSE <<inferred[f[j]].evidence>>
           /\ result[j].url = IF inferred[f[j]].url \notin {Undefined, Null, ""}
                                THEN inferred[f[j]].url
                                ELSE IF PRODUCT_URLS(inferred[f[j]].name) # Undefined
                                       THEN PRODUCT_URLS(inferred[f[j]].name)
                                       ELSE Null

\* nothing detected, two inferred products of different keys, the second
\* of them sorted first, one with the catalog url
C9_Witness ==
  /\ pc = "done"
  /\ variant = "cli"
  /\ detected = <<>>
  /\ Len(inferred) = 2
  /\ DistinctKeys(inferred)
  /\ result[1].name = inferred[2].name
  /\ \E j \in 1..2 : result[j].url = "https://cloudflare.com"
  /\ \E j \in 1..2 : result[j].confidence # "high"

\* the projection of a fused record back to a detected-style input
ProjectToDetected(out) ==
  [j \in 1..Len(out) |->
     [name |-> out[j].name, category |-> out[j].category, url |-> out[j].url,
      confidence |-> out[j].confidence, evidence |-> out[j].evidence]]

NamesAndConfidence(out) ==
  [j \in 1..Len(out) |-> <<out[j].name, out[j].confidence>>]

\* C10: the output of combineResults, projected back to a detected-style
\* input and fused against an empty inferred list, gives the same sequence
\* of names and confidence levels in the same order.
C10_Idempotent ==
  (pc = "done" /\ variant = "cli") =>
    NamesAndConfidence(combineResults(ProjectToDetected(result), <<>>))
      = NamesAndConfidence(result)

\* an output of three records, one of them escalated and one of them an
\* uncorroborated inference that is not high
C10_Witness ==
  /\ pc = "done"
  /\ variant = "cli"
  /\ Len(result) >= 3
  /\ \E j \in 1..Len(result) : Len(result[j].sources) >= 2
  /\ \E j \in 1..Len(result) :
       result[j].sources[1] # "website_detection" /\ result[j].confidence = "low"

\* C27: the combined list returned by the web discover route is ordered by
\* confidence rank with high first: no "medium" or "low" record precedes a
\* "high" record and no "low" record precedes a "medium" record.
C27_WebHighFirst ==
  (pc = "done" /\ variant = "web") =>
    \A j, k \in 1..Len(result) :
       j < k => confidenceOrder(result[j].confidence) <= confidenceOrder(result[k].confidence)

\* C28: fusion leaves its detected input unchanged: no step of fusion, in
\* combineResults or in the web discover route, changes the confidence or
\* the evidence list of a detected product passed in.
C28_DetectedUnchanged == [][detected' = detected]_vars

(***************************************************************************)
(* IEEE-754 double arithmetic of the savings figure                        *)
(*                                                                         *)
(* A binary numeral is a sequence of bits, most significant first, without *)
(* leading zeros (<<>> is zero).  A double is [m |-> numeral, e |-> k],    *)
(* the value m * 2^k, m of at most 53 significant bits.                    *)
(***************************************************************************)
\* significand width of a double
MantissaBits == 53

\* fractional bits computed of a quotient: enough to hold the 53 significant
\* bits, the guard bit and the leading zeros of a quotient >= 1/128
QuotientBits == 62

RECURSIVE IntBits(_)
IntBits(n) == IF n = 0 THEN <<>> ELSE Append(IntBits(n \div 2), n % 2)

RECURSIVE BitsToInt(_)
BitsToInt(b) ==
  IF b = <<>> THEN 0
  ELSE 2 * BitsToInt(SubSeq(b, 1, Len(b) - 1)) + b[Len(b)]

RECURSIVE StripZeros(_)
StripZeros(b) ==
  IF b # <<>> /\ b[1] = 0 THEN StripZeros(Tail(b)) ELSE b

\* remainder of the long division r / q after k fractional bits
RECURSIVE DivRem(_, _, _)
DivRem(r, q, k) == IF k = 0 THEN r ELSE (2 * DivRem(r, q, k - 1)) % q

\* the k-th fractional bit of r / q, r < q
DivBit(r, q, k) == (2 * DivRem(r, q, k - 1)) \div q

\* numeral + 1
RECURSIVE Increment(_)
Increment(b) ==
  IF b = <<>> THEN <<1>>
  ELSE IF b[Len(b)] = 0 THEN Append(SubSeq(b, 1, Len(b) - 1), 1)
  ELSE Append(Increment(SubSeq(b, 1, Len(b) - 1)), 0)

\* round the value b * 2^e (b a numeral, sticky: a non-zero part lies below
\* its last bit) to the nearest double, ties to even
RoundToDouble(b, e, sticky) ==
  IF Len(b) <= MantissaBits THEN [m |-> b, e |-> e]
  ELSE LET kept == SubSeq(b, 1, MantissaBits)
           guard == b[MantissaBits + 1]
           rest == sticky \/ \E j \in (MantissaBits + 2)..Len(b) : b[j] = 1
           up == guard = 1 /\ (rest \/ kept[MantissaBits] = 1)
       IN [m |-> IF up THEN Increment(kept) ELSE kept,
           e |-> e + (Len(b) - MantissaBits)]

\* a / q in double arithmetic, a and q small naturals, q > 0
DoubleDivide(a, q) ==
  LET frac == [k \in 1..QuotientBits |-> DivBit(a % q, q, k)]
  IN RoundToDouble(StripZeros(IntBits(a \div q) \o frac), 0 - QuotientBits,
                   DivRem(a % q, q, QuotientBits) # 0)

\* carry out of the j lowest bits of numeral b times t
RECURSIVE MulCarry(_, _, _)
MulCarry(b, t, j) ==
  IF j = 0 THEN 0
  ELSE (b[Len(b) - j + 1] * t + MulCarry(b, t, j - 1)) \div 2

\* numeral b times the small natural t
MulSmall(b, t) ==
  LET low == [k \in 1..Len(b) |->
                (b[k] * t + MulCarry(b, t, Len(b) - k)) % 2]
  IN StripZeros(IntBits(MulCarry(b, t, Len(b))) \o low)

\* t * x in double arithmetic, t a small natural, x a double
DoubleTimes(t, x) == RoundToDouble(MulSmall(x.m, t), x.e, FALSE)

\* Math.round of a non-negative double: floor(x + 0.5)
MathRound(x) ==
  IF x.e >= 0 THEN BitsToInt(x.m \o [k \in 1..x.e |-> 0])
  ELSE LET n == Len(x.m) + x.e   \* bits of the integer part
       IN IF n < 0 THEN 0
          ELSE BitsToInt(SubSeq(x.m, 1, n)) + x.m[n + 1]

(***************************************************************************)
(* calculateSavings                                                        *)
(*                                                                         *)
(* An optional number is <<>> (undefined or null) or <<n>>; an optional    *)
(* score object is <<>> or <<[vulnerability_score, estimated_annual_cost]>>*)
(***************************************************************************)
MaxScores == 3

\* discountPercent = 15
DefaultDiscount == 15

\* score.vulnerability_score >= 6
Threshold == 6

\* x >= 6 on an optional number: undefined >= 6 is false
AtLeastThreshold(x) == x # <<>> /\ x[1] >= Threshold

\* ToBoolean on an optional number: undefined, null and 0 are falsy
TruthyNumber(x) == x # <<>> /\ x[1] # 0

ScoreObject(v, c) == <<[vulnerability_score |-> v, estimated_annual_cost |-> c]>>

\* the entries scoreProducts produces, and the entries a caller can pass
ScoreResults ==
  { [success |-> FALSE, score |-> <<>>],
    [success |-> TRUE, score |-> <<>>],
    [success |-> TRUE, score |-> ScoreObject(<<8>>, <<50000>>)],
    [success |-> TRUE, score |-> ScoreObject(<<3>>, <<20000>>)],
    [success |-> TRUE, score |-> ScoreObject(<<6>>, <<90>>)],
    [success |-> TRUE, score |-> ScoreObject(<<8>>, <<0>>)],
    [success |-> TRUE, score |-> ScoreObject(<<8>>, <<>>)],
    [success |-> TRUE, score |-> ScoreObject(<<>>, <<50>>)] }

ScoreLists == SeqsUpTo(ScoreResults, MaxScores)

\* the second argument: omitted, or a percentage
DiscountArgs == {<<>>, <<20>>, <<35>>}

\* the default parameter value
discountPercent(arg) == IF arg = <<>> THEN DefaultDiscount ELSE arg[1]

\* if (score.vulnerability_score >= 6 && score.estimated_annual_cost)
Negotiable(score) ==
  AtLeastThreshold(score.vulnerability_score) /\ TruthyNumber(score.estimated_annual_cost)

\* Math.round(totalEstimatedCost * (discountPercent / 100))
potentialSavings(total, percent) ==
  MathRound(DoubleTimes(total, DoubleDivide(percent, 100)))

\* the returned object
SavingsSummary(total, count, arg) ==
  <<[totalEstimatedCost |-> total,
     negotiableProducts |-> count,
     potentialSavings |-> potentialSavings(total, discountPercent(arg)),
     discountPercent |-> discountPercent(arg)]>>

InitSavings ==
  /\ IdleFusion
  /\ IdleDetect
  /\ IdleBatch
  /\ IdleRun
  /\ IdleUi
  /\ scores \in ScoreLists
  /\ discountArg \in DiscountArgs
  /\ sIdx = 1
  /\ totalEstimatedCost = 0
  /\ negotiableProducts = 0
  /\ sPc = "loop"
  /\ summary = <<>>

\* if (!result.success) continue;
SkipFailed ==
  /\ sPc = "loop"
  /\ sIdx <= Len(scores)
  /\ ~scores[sIdx].success
  /\ sIdx' = sIdx + 1
  /\ UNCHANGED <<scores, discountArg, totalEstimatedCost, negotiableProducts,
                 sPc, summary>>
  /\ UNCHANGED <<fusionVars, detectVars, batchVars, runVars, uiVars>>

\* const { score } = result; score.vulnerability_score on a missing score
\* is a TypeError, which calculateSavings does not catch
ReadMissingScore ==
  /\ sPc = "loop"
  /\ sIdx <= Len(scores)
  /\ scores[sIdx].success
  /\ scores[sIdx].score = <<>>
  /\ sPc' = "threw"
  /\ UNCHANGED <<scores, discountArg, sIdx, totalEstimatedCost,
                 negotiableProducts, summary>>
  /\ UNCHANGED <<fusionVars, detectVars, batchVars, runVars, uiVars>>

\* one iteration over a successful result that carries a score
Accumulate ==
  /\ sPc = "loop"
  /\ sIdx <= Len(scores)
  /\ scores[sIdx].success
  /\ scores[sIdx].score # <<>>
  /\ LET score == scores[sIdx].score[1]
     IN IF Negotiable(score)
          THEN /\ totalEstimatedCost' =
                    totalEstimatedCost + score.estimated_annual_cost[1]
               /\ negotiableProducts' = negotiableProducts + 1
          ELSE UNCHANGED <<totalEstimatedCost, negotiableProducts>>
  /\ sIdx' = sIdx + 1
  /\ UNCHANGED <<scores, discountArg, sPc, summary>>
  /\ UNCHANGED <<fusionVars, detectVars, batchVars, runVars, uiVars>>

\* return { totalEstimatedCost, negotiableProducts, potentialSavings, ... }
ReturnSavings ==
  /\ sPc = "loop"
  /\ sIdx > Len(scores)
  /\ summary' = SavingsSummary(totalEstimatedCost, negotiableProducts, discountArg)
  /\ sPc' = "returned"
  /\ UNCHANGED <<scores, discountArg, sIdx, totalEstimatedCost,
                 negotiableProducts>>
  /\ UNCHANGED <<fusionVars, detectVars, batchVars, runVars, uiVars>>

NextSavings == SkipFailed \/ ReadMissingScore \/ Accumulate \/ ReturnSavings

SpecSavings == InitSavings /\ [][NextSavings]_vars

(***************************************************************************)
(* Properties of calculateSavings                                          *)
(***************************************************************************)
\* the result counts under the stated rule: successful, score at least 6,
\* cost not null (0 included)
Qualifies(r) ==
  /\ r.success
  /\ r.score # <<>>
  /\ AtLeastThreshold(r.score[1].vulnerability_score)
  /\ r.score[1].estimated_annual_cost # <<>>

RECURSIVE QualifyingCost(_)
QualifyingCost(s) ==
  IF s = <<>> THEN 0
  ELSE QualifyingCost(Tail(s)) +
       (IF Qualifies(s[1]) THEN s[1].score[1].estimated_annual_cost[1] ELSE 0)

QualifyingCount(s) == Cardinality({k \in 1..Len(s) : Qualifies(s[k])})

\* the integers nearest to n / 100, a tie rounded up or to even
RoundedHundredths(n) ==
  LET q == n \div 100
      r == n % 100
  IN IF r < 50 THEN {q}
     ELSE IF r > 50 THEN {q + 1}
     ELSE {q + 1, q + (q % 2)}

\* C11: calculateSavings returns totalEstimatedCost = the sum of the costs of
\* the successful results with score >= 6 and a non-null cost, potentialSavings
\* = round(totalEstimatedCost * discountPercent / 100) and the discountPercent
\* it was given (15 when omitted); failed results contribute nothing.
C11_SavingsFigures ==
  sPc = "returned" =>
    LET out == summary[1]
        percent == IF discountArg = <<>> THEN 15 ELSE discountArg[1]
    IN /\ out.totalEstimatedCost = QualifyingCost(scores)
       /\ out.discountPercent = percent
       /\ out.potentialSavings \in RoundedHundredths(out.totalEstimatedCost * percent)

\* C12: the returned negotiable product counter is the number of successful
\* results with vulnerability_score >= 6 and a non-null cost, cost 0 included.
C12_CountsNonNullCost ==
  sPc = "returned" => summary[1].negotiableProducts = QualifyingCount(scores)

\* C13: calculateSavings never throws; a successful result without a score
\* object or without vulnerability_score is excluded from total and count,
\* and a summary is still returned.
C13_NeverThrows ==
  /\ sPc # "threw"
  /\ sPc = "returned" =>
       /\ summary # <<>>
       /\ summary[1].negotiableProducts <= QualifyingCount(scores)
       /\ summary[1].totalEstimatedCost <= QualifyingCost(scores)

(***************************************************************************)
(* detectFromWebsite: fingerprint catalog and collected evidence           *)
(*                                                                         *)
(* Product names are TLA+ strings here: detection only copies them and     *)
(* uses them as Map keys.  An evidence item is the text a pattern is       *)
(* tested on; Matching gives, for every pattern of the modelled catalog,   *)
(* the items of the model on which RegExp.test is true.  Every item is     *)
(* shorter than 40 characters, so the slices of the evidence strings       *)
(* keep it whole.                                                          *)
(***************************************************************************)
MaxScripts == 2

Sites == {"cli", "web"}

NoRules == <<>>

\* FINGERPRINTS and PRODUCT_URLS of the CLI detect module, in catalog order
CliFingerprints ==
  << [name |-> "Intercom", url |-> "https://intercom.com",
      scripts |-> <<"widget\\.intercom\\.io", "intercom\\.io">>,
      globals |-> <<"Intercom">>, meta |-> <<"intercom-app-id">>,
      headers |-> NoRules, iframes |-> NoRules, dns |-> NoRules],
     [name |-> "Salesforce", url |-> "https://salesforce.com",
      scripts |-> <<"salesforce\\.com", "force\\.com">>,
      globals |-> NoRules, meta |-> NoRules,
      headers |-> NoRules, iframes |-> NoRules,
      dns |-> <<"salesforce", "_domainkey\\.salesforce">>],
     [name |-> "Cloudflare", url |-> "https://cloudflare.com",
      scripts |-> <<"cloudflare\\.com", "cloudflareinsights">>,
      globals |-> NoRules, meta |-> NoRules,
      headers |-> <<"cf-ray">>, iframes |-> NoRules, dns |-> NoRules],
     [name |-> "Calendly", url |-> "https://calendly.com",
      scripts |-> <<"calendly\\.com", "assets\\.calendly\\.com">>,
      globals |-> NoRules, meta |-> NoRules,
      headers |-> NoRules, iframes |-> <<"calendly\\.com">>, dns |-> NoRules] >>

\* FINGERPRINTS, PRODUCT_URLS and CATEGORIES of the web detect module
WebFingerprints ==
  << [name |-> "Intercom", url |-> "https://intercom.com",
      category |-> "Customer Support",
      scripts |-> <<"widget\\.intercom\\.io", "intercom\\.io">>,
      globals |-> <<"Intercom">>,
      headers |-> NoRules, iframes |-> NoRules],
     [name |-> "Cloudflare", url |-> "https://cloudflare.com",
      category |-> "Infrastructure",
      scripts |-> <<"cloudflare\\.com">>,
      globals |-> NoRules,
      headers |-> <<"cf-ray">>, iframes |-> NoRules],
     [name |-> "Calendly", url |-> "https://calendly.com",
      category |-> "Scheduling",
      scripts |-> <<"calendly\\.com">>,
      globals |-> NoRules,
      headers |-> NoRules, iframes |-> <<"calendly\\.com">>] >>

Fingerprints(v) == IF v = "cli" THEN CliFingerprints ELSE WebFingerprints

\* the rule kinds in the order the loop body checks them
Kinds(v) ==
  IF v = "cli" THEN <<"scripts", "globals", "meta", "headers", "iframes">>
  ELSE <<"scripts", "globals", "headers", "iframes">>

\* confidence += 40 | 30 | 20 | 25 | 35
Weight(kind) ==
  IF kind = "scripts" THEN 40
  ELSE IF kind = "globals" THEN 30
  ELSE IF kind = "meta" THEN 20
  ELSE IF kind = "headers" THEN 25
  ELSE 35

\* the evidence items of the model
ScriptItems ==
  {"https://widget.intercom.io/widget/abc",
   "https://c.salesforce.com/a.js",
   "https://my.force.com/b.js"}

InlineItems == {"window.Intercom('boot')"}

MetaItems == {"intercom-app-id"}

HeaderItems == {"cf-ray", "server"}

IframeItems == {"https://calendly.com/acme/30min"}

TxtItems == {"v=spf1 include:_spf.salesforce.com ~all"}

CnameItems == {"acme.my.salesforce.com"}

GoogleMx == "aspmx.l.google.com"

MicrosoftMx == "acme-com.mail.protection.outlook.com"

\* the items on which pattern.test(item) is true
Matching(pattern) ==
  IF pattern \in {"widget\\.intercom\\.io", "intercom\\.io"}
    THEN {"https://widget.intercom.io/widget/abc"}
  ELSE IF pattern = "salesforce\\.com" THEN {"https://c.salesforce.com/a.js"}
  ELSE IF pattern = "force\\.com"
    THEN {"https://c.salesforce.com/a.js", "https://my.force.com/b.js"}
  ELSE IF pattern = "Intercom" THEN {"window.Intercom('boot')"}
  ELSE IF pattern = "intercom-app-id" THEN {"intercom-app-id"}
  ELSE IF pattern = "cf-ray" THEN {"cf-ray"}
  ELSE IF pattern = "calendly\\.com" THEN {"https://calendly.com/acme/30min"}
  ELSE IF pattern = "salesforce"
    THEN {"v=spf1 include:_spf.salesforce.com ~all", "acme.my.salesforce.com"}
  ELSE IF pattern = "google|gmail|googlemail" THEN {GoogleMx}
  ELSE IF pattern = "outlook|microsoft" THEN {MicrosoftMx}
  ELSE {}

Test(pattern, item) == item \in Matching(pattern)

\* the evidence a successful fetch delivers, by rule kind
Pages ==
  {[scripts |-> s, globals |-> g, meta |-> m, headers |-> h, iframes |-> f] :
     s \in SeqsUpTo(ScriptItems, MaxScripts),
     g \in SeqsUpTo(InlineItems, 1),
     m \in SeqsUpTo(MetaItems, 1),
     h \in SeqsUpTo(HeaderItems, 1),
     f \in SeqsUpTo(IframeItems, 1)}

\* what fetch settles with: <<>> when it rejects, else the page
Responses == {<<>>} \cup {<<p>> : p \in Pages}

\* what a DNS lookup settles with
Lookups(items) ==
  {[ok |-> FALSE, records |-> <<>>]} \cup
  {[ok |-> TRUE, records |-> r] : r \in SeqsUpTo(items, 1)}

MxLookups ==
  Lookups({GoogleMx, MicrosoftMx}) \cup
  {[ok |-> TRUE, records |-> <<GoogleMx, MicrosoftMx>>]}

\* the answers of resolveTxt, resolveMx and the resolveCname calls
DnsWorlds ==
  {[txt |-> t, mx |-> m, cname |-> c] :
     t \in Lookups(TxtItems), m \in MxLookups, c \in Lookups(CnameItems)}

(***************************************************************************)
(* detectFromWebsite: the rule loops                                       *)
(***************************************************************************)
\* for (const item of items) { if (pattern.test(item)) { ...; break; } }:
\* the position of the first item the pattern matches, 0 when none does
FirstMatch(pattern, items) ==
  IF \E j \in 1..Len(items) : Test(pattern, items[j])
    THEN SetMin({j \in 1..Len(items) : Test(pattern, items[j])})
    ELSE 0

\* `script: ${src}`, `global: ${global}`, `meta: ${content}`,
\* `header: ${key}`, `iframe: ${src}`
EvidenceString(kind, pattern, item) ==
  IF kind = "globals" THEN <<kind, pattern>> ELSE <<kind, item>>

\* one pattern against the items of its kind; acc is the running
\* confidence and evidence of the product
MatchRule_EveryItem(kind, pattern, items, acc) ==
  LET hits == SelectSeq(items, LAMBDA x : Test(pattern, x))
  IN [confidence |-> acc.confidence + Len(hits) * Weight(kind),
      evidence |-> acc.evidence \o
                     [j \in 1..Len(hits) |-> EvidenceString(kind, pattern, hits[j])]]

MatchRule(kind, pattern, items, acc) ==
  LET j == FirstMatch(pattern, items)
  IN IF j = 0 THEN acc
     ELSE [confidence |-> acc.confidence + Weight(kind),
           evidence |-> Append(acc.evidence, EvidenceString(kind, pattern, items[j]))]

\* for (const pattern of fingerprint[kind]) { ... }
RECURSIVE MatchPatterns(_, _, _, _)
MatchPatterns(kind, patterns, items, acc) ==
  IF patterns = <<>> THEN acc
  ELSE MatchPatterns(kind, Tail(patterns), items,
                     MatchRule(kind, patterns[1], items, acc))

\* the checks of one product, kind after kind
RECURSIVE MatchKinds(_, _, _, _)
MatchKinds(kinds, fingerprint, page, acc) ==
  IF kinds = <<>> THEN acc
  ELSE MatchKinds(Tail(kinds), fingerprint, page,
                  MatchPatterns(kinds[1], fingerprint[kinds[1]],
                                page[kinds[1]], acc))

MatchProduct(v, fingerprint, page) ==
  MatchKinds(Kinds(v), fingerprint, page, [confidence |-> 0, evidence |-> <<>>])

\* confidence >= 60 ? "high" : confidence >= 30 ? "medium" : "low"
Bucket(confidence) ==
  IF confidence >= 60 THEN "high" ELSE IF confidence >= 30 THEN "medium" ELSE "low"

\* the record detected.set stores for a product the page matches
HtmlRecord_Unclamped(v, fingerprint, acc) ==
  IF v = "cli"
    THEN [name |-> fingerprint.name, confidence |-> Bucket(acc.confidence),
          score |-> acc.confidence, evidence |-> acc.evidence,
          url |-> OrElse(fingerprint.url, Null), source |-> "website_detection"]
    ELSE [name |-> fingerprint.name, confidence |-> Bucket(acc.confidence),
          score |-> acc.confidence, evidence |-> acc.evidence,
          url |-> OrElse(fingerprint.url, Null), category |-> fingerprint.category,
          source |-> "website_detection"]

HtmlRecord(v, fingerprint, acc) ==
  IF v = "cli"
    THEN [name |-> fingerprint.name, confidence |-> Bucket(acc.confidence),
          score |-> Min(acc.confidence, 100), evidence |-> acc.evidence,
          url |-> OrElse(fingerprint.url, Null), source |-> "website_detection"]
    ELSE [name |-> fingerprint.name, confidence |-> Bucket(acc.confidence),
          score |-> Min(acc.confidence, 100), evidence |-> acc.evidence,
          url |-> OrElse(fingerprint.url, Null), category |-> fingerprint.category,
          source |-> "website_detection"]

\* for (const [product, fingerprint] of Object.entries(FINGERPRINTS)) { ... }
RECURSIVE MatchCatalog(_, _, _, _)
MatchCatalog(v, catalog, page, m) ==
  IF catalog = <<>> THEN m
  ELSE LET acc == MatchProduct(v, catalog[1], page)
       IN MatchCatalog(v, Tail(catalog), page,
                       IF acc.confidence > 0
                         THEN MapSet(m, catalog[1].name, HtmlRecord(v, catalog[1], acc))
                         ELSE m)

(***************************************************************************)
(* detectFromDNS                                                           *)
(***************************************************************************)
\* await resolve(...).catch(() => []), and the try/catch around resolveCname
Records(lookup) == IF lookup.ok THEN lookup.records ELSE <<>>

\* `${txtString} ${mxString} ${cnameString}`: the joined records; the
\* patterns of the model do not span two records
dnsContent(d) == Records(d.txt) \o Records(d.mx) \o Records(d.cname)

TestAny(pattern, records) == \E j \in 1..Len(records) : Test(pattern, records[j])

\* existing.score += 20; existing.evidence.push("dns_record")
RaiseExisting(existing) ==
  [existing EXCEPT !.score = @ + 20,
                   !.evidence = Append(@, <<"dns_record", "">>)]

\* the record set for a product only the DNS records show
DnsRecord(fingerprint) ==
  [name |-> fingerprint.name, confidence |-> "medium", score |-> 30,
   evidence |-> << <<"dns_record", "">> >>,
   url |-> OrElse(fingerprint.url, Null), source |-> "dns_detection"]

\* the generic loop: the first matching dns pattern of a product counts
RECURSIVE MatchDns(_, _, _)
MatchDns(catalog, content, m) ==
  IF catalog = <<>> THEN m
  ELSE LET fingerprint == catalog[1]
           hit == \E k \in 1..Len(fingerprint.dns) :
                     TestAny(fingerprint.dns[k], content)
       IN MatchDns(Tail(catalog), content,
                   IF ~hit THEN m
                   ELSE IF MapHas(m, fingerprint.name)
                     THEN MapSet(m, fingerprint.name,
                                 RaiseExisting(MapGet(m, fingerprint.name)))
                     ELSE MapSet(m, fingerprint.name, DnsRecord(fingerprint)))

\* the record of a mail provider
MailRecord_Medium(name, url) ==
  [name |-> name, confidence |-> "medium", score |-> 30,
   evidence |-> << <<"mx_record", "">> >>, url |-> url, source |-> "dns_detection"]

MailRecord(name, url) ==
  [name |-> name, confidence |-> "high", score |-> 80,
   evidence |-> << <<"mx_record", "">> >>, url |-> url, source |-> "dns_detection"]

\* if (/google|gmail|googlemail/i.test(mxString)) detected.set(...)
\* if (/outlook|microsoft/i.test(mxString)) detected.set(...)
MatchMx(mxRecords, m) ==
  LET g == IF TestAny("google|gmail|googlemail", mxRecords)
             THEN MapSet(m, "Google Workspace",
                         MailRecord("Google Workspace", "https://workspace.google.com"))
             ELSE m
  IN IF TestAny("outlook|microsoft", mxRecords)
       THEN MapSet(g, "Microsoft 365",
                   MailRecord("Microsoft 365", "https://microsoft.com/microsoft-365"))
       ELSE g

detectFromDNS(d, m) ==
  MatchMx(Records(d.mx), MatchDns(CliFingerprints, dnsContent(d), m))

(***************************************************************************)
(* detectFromWebsite as a state machine: one action per stretch of code    *)
(* between two awaits                                                      *)
(***************************************************************************)
\* what the catch block of detectFromWebsite leads to: it logs and falls
\* through to the return statement
Catch_Rethrow(stage) == "rejected"

Catch(stage) == "caught"

InitDetect ==
  /\ IdleFusion
  /\ IdleSavings
  /\ IdleBatch
  /\ IdleRun
  /\ IdleUi
  /\ site \in Sites
  /\ response \in Responses
  /\ dns \in IF site = "cli" THEN DnsWorlds ELSE {<<>>}
  /\ dDetected = <<>>
  /\ dPc = "fetch"
  /\ dResult = <<>>

\* await fetch(url, ...) and await res.text() resolve
FetchPage ==
  /\ dPc = "fetch"
  /\ response # <<>>
  /\ dPc' = "match"
  /\ UNCHANGED <<site, response, dns, dDetected, dResult>>
  /\ UNCHANGED <<fusionVars, savingsVars, batchVars, runVars, uiVars>>

\* fetch rejects: control leaves the try block for the catch block
FetchFails ==
  /\ dPc = "fetch"
  /\ response = <<>>
  /\ dPc' = Catch("fetch")
  /\ UNCHANGED <<site, response, dns, dDetected, dResult>>
  /\ UNCHANGED <<fusionVars, savingsVars, batchVars, runVars, uiVars>>

\* the loop over FINGERPRINTS on the parsed page
MatchFingerprints ==
  /\ dPc = "match"
  /\ dDetected' = MatchCatalog(site, Fingerprints(site), response[1], dDetected)
  /\ dPc' = "matched"
  /\ UNCHANGED <<site, response, dns, dResult>>
  /\ UNCHANGED <<fusionVars, savingsVars, batchVars, runVars, uiVars>>

\* await detectFromDNS(hostname, detected): CLI only, after the loop and
\* inside the same try block
DetectFromDNS ==
  /\ dPc = "matched"
  /\ site = "cli"
  /\ dDetected' = detectFromDNS(dns, dDetected)
  /\ dPc' = "return"
  /\ UNCHANGED <<site, response, dns, dResult>>
  /\ UNCHANGED <<fusionVars, savingsVars, batchVars, runVars, uiVars>>

\* return Array.from(detected.values()).sort((a, b) => b.score - a.score)
ReturnDetected ==
  /\ \/ dPc \in {"return", "caught"}
     \/ dPc = "matched" /\ site = "web"
  /\ dResult' = ArraySort(MapValues(dDetected), "score")
  /\ dPc' = "returned"
  /\ UNCHANGED <<site, response, dns, dDetected>>
  /\ UNCHANGED <<fusionVars, savingsVars, batchVars, runVars, uiVars>>

NextDetect ==
  FetchPage \/ FetchFails \/ MatchFingerprints \/ DetectFromDNS \/ ReturnDetected

SpecDetect == InitDetect /\ [][NextDetect]_vars

(***************************************************************************)
(* Properties of detectFromWebsite                                         *)
(***************************************************************************)
Returned(name) == {j \in 1..Len(dResult) : dResult[j].name = name}

HasDnsEvidence(product) ==
  \E k \in 1..Len(product.evidence) : product.evidence[k][1] = "dns_record"

\* C14: every returned DetectedProduct has 0 < score <= 100, whatever script,
\* global, meta, header, iframe and DNS rules matched.
C14_ScoreRange ==
  dPc = "returned" =>
    \A j \in 1..Len(dResult) : dResult[j].score > 0 /\ dResult[j].score <= 100

\* a page matching Intercom rules worth 130 and both Salesforce script
\* rules, Salesforce raised by a DNS match
C14_Witness ==
  /\ dPc = "returned"
  /\ \E j \in Returned("Intercom") :
        dResult[j].score = 100 /\ Len(dResult[j].evidence) = 4
  /\ \E j \in Returned("Salesforce") :
        dResult[j].score = 100 /\ HasDnsEvidence(dResult[j])

\* C15: the confidence of every returned DetectedProduct is the bucket of its
\* final score: high iff score >= 60, medium iff 30 <= score < 60, low iff
\* score < 30, also after a DNS match raised the score of an HTML match.
C15_BucketAgreesWithScore ==
  dPc = "returned" =>
    \A j \in 1..Len(dResult) :
       LET p == dResult[j]
       IN /\ p.confidence = "high" <=> p.score >= 60
          /\ p.confidence = "medium" <=> (30 <= p.score /\ p.score < 60)
          /\ p.confidence = "low" <=> p.score < 30

\* the weight the claim gives each kind of rule
StatedWeight(kind) ==
  CASE kind = "scripts" -> 40
    [] kind = "globals" -> 30
    [] kind = "headers" -> 25
    [] kind = "iframes" -> 35
    [] kind = "meta" -> 20

\* the rules of a kind that have at least one matching item on the page
MatchedRules(fingerprint, kind, page) ==
  {k \in 1..Len(fingerprint[kind]) :
     \E j \in 1..Len(page[kind]) : Test(fingerprint[kind][k], page[kind][j])}

RECURSIVE WeightSum(_, _, _)
WeightSum(kinds, fingerprint, page) ==
  IF kinds = <<>> THEN 0
  ELSE StatedWeight(kinds[1]) * Cardinality(MatchedRules(fingerprint, kinds[1], page))
       + WeightSum(Tail(kinds), fingerprint, page)

RECURSIVE RuleCount(_, _, _)
RuleCount(kinds, fingerprint, page) ==
  IF kinds = <<>> THEN 0
  ELSE Cardinality(MatchedRules(fingerprint, kinds[1], page))
       + RuleCount(Tail(kinds), fingerprint, page)

ItemsOfKind(kind) ==
  CASE kind = "scripts" -> ScriptItems
    [] kind = "globals" -> InlineItems
    [] kind = "meta" -> MetaItems
    [] kind = "headers" -> HeaderItems
    [] kind = "iframes" -> IframeItems

\* C16: each rule adds its kind's weight and one evidence string at most
\* once: after the rule loop the unclamped score of a product is the sum of
\* the weights of its rules with a matching item, its evidence has one
\* string per such rule, and one more item that matches only rules already
\* matched changes neither.
C16_RuleCountsOnce ==
  dPc = "matched" =>
    \A f \in 1..Len(Fingerprints(site)) :
       LET fingerprint == Fingerprints(site)[f]
           page == response[1]
           sum == WeightSum(Kinds(site), fingerprint, page)
           acc == MatchProduct(site, fingerprint, page)
       IN /\ acc.confidence = sum
          /\ Len(acc.evidence) = RuleCount(Kinds(site), fingerprint, page)
          /\ IF sum = 0 THEN ~MapHas(dDetected, fingerprint.name)
             ELSE /\ MapHas(dDetected, fingerprint.name)
                  /\ MapGet(dDetected, fingerprint.name).score = Min(sum, 100)
                  /\ MapGet(dDetected, fingerprint.name).evidence = acc.evidence
          /\ \A n \in 1..Len(Kinds(site)) : \A item \in ItemsOfKind(Kinds(site)[n]) :
                LET kind == Kinds(site)[n]
                    more == [page EXCEPT ![kind] = Append(@, item)]
                    again == MatchProduct(site, fingerprint, more)
                IN MatchedRules(fingerprint, kind, more) = MatchedRules(fingerprint, kind, page)
                     => /\ again.confidence = acc.confidence
                        /\ Len(again.evidence) = Len(acc.evidence)

\* two script items on the page match the same Salesforce rule
C16_Witness ==
  /\ dPc = "matched"
  /\ site = "cli"
  /\ response[1].scripts = <<"https://c.salesforce.com/a.js", "https://my.force.com/b.js">>
  /\ MapHas(dDetected, "Salesforce")
  /\ MapGet(dDetected, "Salesforce").score = 80

\* the products whose dns rule or mail-provider token matches the records
\* of the lookups that succeed
DnsMatched(d) ==
  {CliFingerprints[f].name : f \in {g \in 1..Len(CliFingerprints) :
      \E k \in 1..Len(CliFingerprints[g].dns) :
         TestAny(CliFingerprints[g].dns[k], dnsContent(d))}}
  \cup (IF GoogleMx \in {Records(d.mx)[j] : j \in 1..Len(Records(d.mx))}
          THEN {"Google Workspace"} ELSE {})
  \cup (IF MicrosoftMx \in {Records(d.mx)[j] : j \in 1..Len(Records(d.mx))}
          THEN {"Microsoft 365"} ELSE {})

\* C17: a failing collector does not discard the evidence of the others:
\* whether the page fetch fails or not, and whichever DNS lookups fail, every
\* product whose DNS or MX rule matches the records of the lookups that
\* succeed is returned.
C17_DnsSurvivesFailures ==
  (dPc = "returned" /\ site = "cli") =>
    \A name \in DnsMatched(dns) : Returned(name) # {}

\* no rule of the running module matches an item of the page
PageMatchesNothing(v, page) ==
  \A f \in 1..Len(Fingerprints(v)) :
     RuleCount(Kinds(v), Fingerprints(v)[f], page) = 0

\* C18: detectFromWebsite never rejects, whatever the fetch and the DNS
\* lookups do; when no rule matches any evidence (collectors empty or
\* failed) it resolves to the empty list.
C18_NeverRejects ==
  /\ dPc # "rejected"
  /\ (/\ dPc = "returned"
      /\ response = <<>> \/ PageMatchesNothing(site, response[1])
      /\ site = "cli" => DnsMatched(dns) = {})
       => dResult = <<>>

\* the fetch and every DNS lookup failed, and the call returned []
C18_Witness ==
  /\ dPc = "returned"
  /\ site = "cli"
  /\ response = <<>>
  /\ ~dns.txt.ok /\ ~dns.mx.ok /\ ~dns.cname.ok
  /\ dResult = <<>>

\* C19: whenever the DNS pass runs and the MX hosts hold a Google token, the
\* result has "Google Workspace" with score 80 and confidence "high"; the
\* same for a Microsoft token and "Microsoft 365"; with both tokens both are
\* returned, whatever the generic rules matched.
C19_MailProviders ==
  (dPc = "returned" /\ site = "cli" /\ response # <<>>) =>
    /\ TestAny("google|gmail|googlemail", Records(dns.mx)) =>
         /\ Cardinality(Returned("Google Workspace")) = 1
         /\ \A j \in Returned("Google Workspace") :
               dResult[j].score = 80 /\ dResult[j].confidence = "high"
    /\ TestAny("outlook|microsoft", Records(dns.mx)) =>
         /\ Cardinality(Returned("Microsoft 365")) = 1
         /\ \A j \in Returned("Microsoft 365") :
               dResult[j].score = 80 /\ dResult[j].confidence = "high"

\* both tokens in the MX hosts, next to generic HTML and DNS matches
C19_Witness ==
  /\ dPc = "returned"
  /\ Returned("Google Workspace") # {}
  /\ Returned("Microsoft 365") # {}
  /\ Returned("Salesforce") # {}
  /\ Returned("Intercom") # {}

(***************************************************************************)
(* The batched dispatchers scrapePages, scoreProducts and discoverBulk     *)
(*                                                                         *)
(* An input is the url or company name of the item.  Request k is the call *)
(* made for the k-th input; settled[k] is "pending", "fulfilled" or        *)
(* "rejected".                                                             *)
(***************************************************************************)
MaxItems == 4

Dispatchers == {"scrapePages", "scoreProducts", "discoverBulk"}

ItemNames == {"a.example", "b.example"}

InputLists == SeqsUpTo(ItemNames, MaxItems)

\* the concurrency option: omitted, or a non-negative integer
ConcurrencyArgs == {<<>>, <<0>>, <<1>>, <<2>>, <<3>>}

\* { concurrency = 3 } of scrapePages, { concurrency = 2 } of the others
concurrency(d, arg) ==
  IF arg # <<>> THEN arg[1] ELSE IF d = "scrapePages" THEN 3 ELSE 2

\* the positions of the inputs in urls.slice(i, i + concurrency)
BatchRange(i, c, n) == (i + 1)..Min(i + c, n)

\* the entry pushed for input item whose request settled with outcome;
\* the page scrapePage resolves with carries the url it was given
Entry(d, item, outcome) ==
  IF d = "scrapePages"
    THEN IF outcome = "fulfilled"
           THEN [success |-> TRUE, data |-> [url |-> item, content |-> "text"]]
           ELSE [success |-> FALSE, url |-> item, error |-> "message"]
  ELSE IF d = "scoreProducts"
    THEN IF outcome = "fulfilled"
           THEN [success |-> TRUE, url |-> item, score |-> "score"]
           ELSE [success |-> FALSE, url |-> item, error |-> "message"]
  ELSE IF outcome = "fulfilled"
         THEN [success |-> TRUE, company |-> item, data |-> "stack"]
         ELSE [success |-> FALSE, company |-> item, error |-> "message"]

\* the requests of the batch in the order of completion
CompletionOrder(i, c, done) ==
  SelectSeq(done, LAMBDA k : k \in BatchRange(i, c, Len(inputs)))

\* the requests of the batch in the order Promise.allSettled reports them:
\* that of the promises passed in, which is that of the batch
SettledOrder_ByCompletion(i, c, done) == CompletionOrder(i, c, done)

SettledOrder(i, c, done) ==
  [j \in 1..Cardinality(BatchRange(i, c, Len(inputs))) |-> i + j]

\* for (let j = 0; j < batchResults.length; j++) results.push(...)
PushBatch(d, res, i, c, done) ==
  LET ks == SettledOrder(i, c, done)
  IN res \o [j \in 1..Len(ks) |-> Entry(d, inputs[ks[j]], settled[ks[j]])]

\* await Promise.allSettled(promises): "wait" while a promise is pending,
\* then "resolve"; allSettled never rejects.  pending are the requests of
\* the batch still in flight, outcomes the states of its promises
Join_First(pending, outcomes) ==
  IF pending = {} \/ outcomes \cap {"fulfilled", "rejected"} # {}
    THEN "resolve" ELSE "wait"

Join_FailFast(pending, outcomes) ==
  IF "rejected" \in outcomes THEN "reject"
  ELSE IF pending = {} THEN "resolve" ELSE "wait"

Join(pending, outcomes) == IF pending = {} THEN "resolve" ELSE "wait"

InitBatch ==
  /\ IdleFusion
  /\ IdleSavings
  /\ IdleDetect
  /\ IdleRun
  /\ IdleUi
  /\ dispatcher \in Dispatchers
  /\ inputs \in InputLists
  /\ concurrencyArg \in ConcurrencyArgs
  /\ bI = 0
  /\ inFlight = {}
  /\ settled = [k \in 1..Len(inputs) |-> "pending"]
  /\ order = <<>>
  /\ results = <<>>
  /\ bPc = "loop"

\* i < length: batch = slice(i, i + concurrency); batch.map(...) issues one
\* request per item; the dispatcher awaits Promise.allSettled
IssueBatch ==
  /\ bPc = "loop"
  /\ bI < Len(inputs)
  /\ inFlight' = inFlight \cup
                   BatchRange(bI, concurrency(dispatcher, concurrencyArg), Len(inputs))
  /\ bPc' = "await"
  /\ UNCHANGED <<dispatcher, inputs, concurrencyArg, bI, settled, order, results>>
  /\ UNCHANGED <<fusionVars, savingsVars, detectVars, runVars, uiVars>>

\* a request in flight fulfils or rejects, in any order
Settle ==
  /\ \E k \in inFlight : \E outcome \in {"fulfilled", "rejected"} :
        /\ settled' = [settled EXCEPT ![k] = outcome]
        /\ order' = Append(order, k)
        /\ inFlight' = inFlight \ {k}
  /\ UNCHANGED <<dispatcher, inputs, concurrencyArg, bI, results, bPc>>
  /\ UNCHANGED <<fusionVars, savingsVars, detectVars, runVars, uiVars>>

\* the await of the batch ends: the entries of the batch are pushed; then
\* scrapePages waits if another batch follows, the others loop at once
CollectBatch ==
  /\ bPc = "await"
  /\ LET c == concurrency(dispatcher, concurrencyArg)
         batch == BatchRange(bI, c, Len(inputs))
         join == Join(inFlight \cap batch, {settled[k] : k \in batch})
     IN /\ join # "wait"
        /\ IF join = "reject"
             THEN bPc' = "rejected" /\ UNCHANGED <<bI, results>>
             ELSE /\ results' = PushBatch(dispatcher, results, bI, c, order)
                  /\ IF dispatcher = "scrapePages" /\ bI + c < Len(inputs)
                       THEN bPc' = "delay" /\ UNCHANGED bI
                       ELSE bPc' = "loop" /\ bI' = bI + c
  /\ UNCHANGED <<dispatcher, inputs, concurrencyArg, inFlight, settled, order>>
  /\ UNCHANGED <<fusionVars, savingsVars, detectVars, runVars, uiVars>>

\* await new Promise(r => setTimeout(r, delayMs)) resolves; i += concurrency
Delay ==
  /\ bPc = "delay"
  /\ bI' = bI + concurrency(dispatcher, concurrencyArg)
  /\ bPc' = "loop"
  /\ UNCHANGED <<dispatcher, inputs, concurrencyArg, inFlight, settled, order,
                 results>>
  /\ UNCHANGED <<fusionVars, savingsVars, detectVars, runVars, uiVars>>

\* the loop condition fails: return results
ReturnResults ==
  /\ bPc = "loop"
  /\ bI >= Len(inputs)
  /\ bPc' = "returned"
  /\ UNCHANGED <<dispatcher, inputs, concurrencyArg, bI, inFlight, settled,
                 order, results>>
  /\ UNCHANGED <<fusionVars, savingsVars, detectVars, runVars, uiVars>>

NextBatch == IssueBatch \/ Settle \/ CollectBatch \/ Delay \/ ReturnResults

SpecBatch == InitBatch /\ [][NextBatch]_vars

(***************************************************************************)
(* Properties of the batched dispatchers                                   *)
(***************************************************************************)
\* the input an entry of the results array names
EntryItem(d, e) ==
  IF d = "discoverBulk" THEN e.company
  ELSE IF d = "scrapePages" /\ e.success THEN e.data.url
  ELSE e.url

\* C20: for every input list and every completion order of the concurrent
\* requests, the array a dispatcher returns has the length of the input and
\* its k-th entry records the outcome (success or failure) of the k-th input.
C20_ResultsInInputOrder ==
  bPc = "returned" =>
    /\ Len(results) = Len(inputs)
    /\ \A k \in 1..Len(inputs) :
          /\ EntryItem(dispatcher, results[k]) = inputs[k]
          /\ results[k].success <=> settled[k] = "fulfilled"
          /\ ~results[k].success <=> settled[k] = "rejected"

\* two requests of one batch completed in the reverse of the input order,
\* with different outcomes for different items
C20_Witness ==
  /\ bPc = "returned"
  /\ Len(inputs) >= 2
  /\ \E a, b \in 1..Len(order) :
        /\ a < b
        /\ order[a] = order[b] + 1
        /\ settled[order[a]] # settled[order[b]]
        /\ inputs[order[a]] # inputs[order[b]]

\* C21: batch barrier: no request of the next batch is issued before every
\* request of the batches before it has settled, so at most `concurrency`
\* requests are in flight at any moment.
C21_BatchBarrier ==
  [][/\ Cardinality(inFlight') <= concurrency(dispatcher, concurrencyArg)
     /\ inFlight' \ inFlight # {} =>
          \A k \in 1..bI : settled[k] # "pending"]_vars

\* a second batch of two or more requests is in flight
C21_Witness ==
  /\ bPc = "await"
  /\ bI > 0
  /\ Cardinality(inFlight) >= 2
  /\ Cardinality(inFlight) = concurrency(dispatcher, concurrencyArg)

\* C22: failure isolation: a failing item is recorded as {success: false,
\* error} for that item only; its siblings and the items of later batches are
\* still issued and have their own outcome recorded, and the dispatcher
\* does not reject.
C22_FailureIsolation ==
  /\ bPc # "rejected"
  /\ bPc = "returned" =>
       /\ Len(results) = Len(inputs)
       /\ \A k \in 1..Len(inputs) :
             /\ settled[k] # "pending"
             /\ settled[k] = "rejected" =>
                  ~results[k].success /\ "error" \in DOMAIN results[k]
             /\ settled[k] = "fulfilled" =>
                  results[k].success /\ "error" \notin DOMAIN results[k]

\* the first request failed, its sibling in the batch and an item of a
\* later batch succeeded
C22_Witness ==
  /\ bPc = "returned"
  /\ concurrency(dispatcher, concurrencyArg) = 2
  /\ Len(inputs) >= 3
  /\ settled[1] = "rejected" /\ ~results[1].success
  /\ settled[2] = "fulfilled" /\ results[2].success
  /\ settled[3] = "fulfilled" /\ results[3].success

\* C23: throttling: in each dispatcher a delay step lies between the settling
\* of a batch and the issuing of the next one, and no delay follows the
\* final batch.
C23_DelayBetweenBatches ==
  [][(/\ bPc = "await"
      /\ bPc' # "await"
      /\ concurrency(dispatcher, concurrencyArg) > 0) =>
        (bPc' = "delay" <=>
           bI + concurrency(dispatcher, concurrencyArg) < Len(inputs))]_vars

\* the event loop runs every continuation that is ready, and every request
\* issued settles
SpecBatchFair == InitBatch /\ [][NextBatch]_vars /\ WF_vars(NextBatch)

\* C29: for every input list and every concurrency option value the
\* dispatcher eventually returns, once the requests it issued have settled.
C29_Terminates == <>(bPc = "returned")

(***************************************************************************)
(* The scan pipelines: runStack, runCompany, the web stack route           *)
(*                                                                         *)
(* A target is a row of the CSV file, the url of an inferred product or an *)
(* element of the urls array of the request.  The dispatchers are taken    *)
(* whole here: scrapePages and scoreProducts return one entry per item in  *)
(* input order (SpecBatch).  The reports print and do not change the       *)
(* arrays they are given (they sort a filtered copy).                      *)
(***************************************************************************)
MaxTargets == 3

Runners == {"runStack", "runCompany", "webStack"}

WellFormed == {"https://a.example", "https://b.example", "https://c.example"}

Malformed == {"not-a-url"}

\* url && (url.startsWith("http://") || url.startsWith("https://")) of
\* parseCSV, p.url && p.url.startsWith("http") of runCompany
StartsWithHttp(t) == t \in WellFormed

\* the lists of distinct targets
TargetLists ==
  {t \in SeqsUpTo(WellFormed \cup Malformed, MaxTargets) :
     \A j, k \in 1..Len(t) : j # k => t[j] # t[k]}

\* urls.filter(...) of parseCSV and runCompany; the web route takes the
\* array as it is
KeptUrls(r, t) ==
  IF r = "webStack" THEN t ELSE SelectSeq(t, StartsWithHttp)

\* the checks that end the invocation before any scrape or scoring request:
\* "No valid URLs found in CSV", "Could not infer any SaaS products",
\* "No valid product URLs found", "URLs array is required"
Refuses(r, t) ==
  IF r = "webStack" THEN t = <<>> ELSE KeptUrls(r, t) = <<>>

\* the entry scoreProducts pushes for a page: the score is the parsed
\* answer of the language model, which can be null
ScoredEntry(url, outcome) ==
  IF outcome = "rejected" THEN [success |-> FALSE, url |-> url, error |-> "message"]
  ELSE IF outcome = "null" THEN [success |-> TRUE, url |-> url, score |-> <<>>]
  ELSE [success |-> TRUE, url |-> url, score |-> ScoreObject(<<8>>, <<50000>>)]

ScoreOutcomes == {"rejected", "null", "scored"}

\* scrapeResults.filter(r => !r.success).map(r => ({ success: false,
\* url: r.url, error: `Scrape failed: ${r.error}` }))
ScrapeFailures(scraped) ==
  LET failed == SelectSeq(scraped, LAMBDA e : ~e.success)
  IN [j \in 1..Len(failed) |->
        [success |-> FALSE, url |-> failed[j].url, error |-> "Scrape failed: message"]]

\* const allResults = [...scoreResults, ...scrape failures]
MergeAll(scraped, scored) == scored \o ScrapeFailures(scraped)

\* whether calculateSavings throws on the list: a successful entry
\* without a score object
SavingsThrows(list) ==
  \E k \in 1..Len(list) : list[k].success /\ list[k].score = <<>>

\* the entries calculateSavings counts, and those the web route counts
\* (results.filter(r => r.success && r.score) and the same test)
CountedEntries(list) ==
  SelectSeq(list, LAMBDA e : e.success /\ e.score # <<>> /\ Negotiable(e.score[1]))

RECURSIVE TotalCost(_)
TotalCost(list) ==
  IF list = <<>> THEN 0
  ELSE list[1].score[1].estimated_annual_cost[1] + TotalCost(Tail(list))

\* calculateSavings(allResults), and the inlined savings of the web route
\* (Math.round(totalCost * 0.15), discountPercent: 15)
RunSavings(list) ==
  SavingsSummary(TotalCost(CountedEntries(list)), Len(CountedEntries(list)), <<>>)

InitRun ==
  /\ IdleFusion
  /\ IdleSavings
  /\ IdleDetect
  /\ IdleBatch
  /\ IdleUi
  /\ runner \in Runners
  /\ targets \in TargetLists
  /\ urls = <<>>
  /\ requests = 0
  /\ scrapeResults = <<>>
  /\ scoreResults = <<>>
  /\ allResults = <<>>
  /\ runSavings = <<>>
  /\ rPc = "validate"

\* parseCSV and the length check of runStack, the url filter and the checks
\* of runCompany (after its inferSaasStack request), the checks on the urls
\* array of the web route: the invocation throws (or answers 400), or goes
\* on with the urls it kept
ValidateTargets ==
  /\ rPc = "validate"
  /\ urls' = KeptUrls(runner, targets)
  /\ requests' = IF runner = "runCompany" THEN 1 ELSE 0
  /\ rPc' = IF Refuses(runner, targets) THEN "refused"
            ELSE IF runner = "webStack" THEN "process" ELSE "scrape"
  /\ UNCHANGED <<runner, targets, scrapeResults, scoreResults, allResults,
                 runSavings>>
  /\ UNCHANGED <<fusionVars, savingsVars, detectVars, batchVars, uiVars>>

\* const scrapeResults = await scrapePages(urls): one request per url, each
\* fulfils or rejects
ScrapeAll ==
  /\ rPc = "scrape"
  /\ \E outcome \in [1..Len(urls) -> {"fulfilled", "rejected"}] :
        scrapeResults' =
          [k \in 1..Len(urls) |-> Entry("scrapePages", urls[k], outcome[k])]
  /\ requests' = requests + Len(urls)
  /\ rPc' = "score"
  /\ UNCHANGED <<runner, targets, urls, scoreResults, allResults, runSavings>>
  /\ UNCHANGED <<fusionVars, savingsVars, detectVars, batchVars, uiVars>>

\* const scoreResults = await scoreProducts(successfulScrapes.map(r => r.data))
ScoreAll ==
  /\ rPc = "score"
  /\ LET pages == SelectSeq(scrapeResults, LAMBDA e : e.success)
     IN /\ \E outcome \in [1..Len(pages) -> ScoreOutcomes] :
              scoreResults' =
                [j \in 1..Len(pages) |-> ScoredEntry(pages[j].data.url, outcome[j])]
        /\ requests' = requests + Len(pages)
  /\ rPc' = "merge"
  /\ UNCHANGED <<runner, targets, urls, scrapeResults, allResults, runSavings>>
  /\ UNCHANGED <<fusionVars, savingsVars, detectVars, batchVars, uiVars>>

\* allResults = [...]; const savings = calculateSavings(allResults), which
\* can throw; runStack and runCompany do not catch
MergeResults ==
  /\ rPc = "merge"
  /\ allResults' = MergeAll(scrapeResults, scoreResults)
  /\ IF SavingsThrows(MergeAll(scrapeResults, scoreResults))
       THEN rPc' = "threw" /\ UNCHANGED runSavings
       ELSE /\ rPc' = "report"
            /\ runSavings' = RunSavings(MergeAll(scrapeResults, scoreResults))
  /\ UNCHANGED <<runner, targets, urls, requests, scrapeResults, scoreResults>>
  /\ UNCHANGED <<fusionVars, savingsVars, detectVars, batchVars, uiVars>>

\* the report is printed or written; return { results: allResults, savings }
ReturnRun ==
  /\ rPc = "report"
  /\ rPc' = "returned"
  /\ UNCHANGED <<runner, targets, urls, requests, scrapeResults, scoreResults,
                 allResults, runSavings>>
  /\ UNCHANGED <<fusionVars, savingsVars, detectVars, batchVars, uiVars>>

\* what the chain scrapePage, scoreProduct of the web route settles with
\* for a url: fetch rejects on a url it cannot parse
WebOutcomes(url) ==
  IF StartsWithHttp(url) THEN {"scrape failed"} \cup ScoreOutcomes
  ELSE {"scrape failed"}

\* results.push({ success: true, url, score }) or
\* results.push({ success: false, url, error })
WebEntry(url, outcome) ==
  IF outcome = "scrape failed"
    THEN [success |-> FALSE, url |-> url, error |-> "message"]
    ELSE ScoredEntry(url, outcome)

\* the batches of the web route: every url is scraped, and scored if the
\* scrape succeeded; the entries are pushed in the order of the urls
ProcessAll ==
  /\ rPc = "process"
  /\ \E outcome \in [1..Len(urls) -> {"scrape failed"} \cup ScoreOutcomes] :
        /\ \A k \in 1..Len(urls) : outcome[k] \in WebOutcomes(urls[k])
        /\ allResults' = [k \in 1..Len(urls) |-> WebEntry(urls[k], outcome[k])]
        /\ requests' = requests + Len(urls) +
             Cardinality({k \in 1..Len(urls) : outcome[k] # "scrape failed"})
  /\ rPc' = "respond"
  /\ UNCHANGED <<runner, targets, urls, scrapeResults, scoreResults, runSavings>>
  /\ UNCHANGED <<fusionVars, savingsVars, detectVars, batchVars, uiVars>>

\* the savings of the web route, results.sort(...) by vulnerability score,
\* NextResponse.json({ success: true, results, savings })
Respond ==
  /\ rPc = "respond"
  /\ runSavings' = RunSavings(allResults)
  /\ allResults' = ArraySort(allResults, "vulnerability")
  /\ rPc' = "returned"
  /\ UNCHANGED <<runner, targets, urls, requests, scrapeResults, scoreResults>>
  /\ UNCHANGED <<fusionVars, savingsVars, detectVars, batchVars, uiVars>>

NextRun ==
  \/ ValidateTargets
  \/ ScrapeAll
  \/ ScoreAll
  \/ MergeResults
  \/ ReturnRun
  \/ ProcessAll
  \/ Respond

SpecRun == InitRun /\ [][NextRun]_vars

(***************************************************************************)
(* Properties of the scan pipelines                                        *)
(***************************************************************************)
EntriesFor(url) == {k \in 1..Len(allResults) : allResults[k].url = url}

\* C24: for every non-empty list of valid URLs and whichever scrapes and
\* scorings fail, runStack returns and does not throw, and its results hold
\* exactly one entry per input URL: a score, a scoring failure or a
\* "Scrape failed" failure.
C24_StackScanCompletes ==
  (/\ runner = "runStack"
   /\ targets # <<>>
   /\ \A k \in 1..Len(targets) : targets[k] \in WellFormed) =>
     /\ rPc \notin {"threw", "refused"}
     /\ rPc = "returned" =>
          /\ Len(allResults) = Len(targets)
          /\ \A k \in 1..Len(targets) : Cardinality(EntriesFor(targets[k])) = 1
          /\ \A k \in 1..Len(allResults) :
                IF allResults[k].success THEN "score" \in DOMAIN allResults[k]
                ELSE allResults[k].error \in {"message", "Scrape failed: message"}

\* C25: when the target list is empty or holds a malformed URL, runStack and
\* the web stack route fail at once: no scrape or scoring request is issued
\* for any item.
C25_ValidationFatal ==
  (/\ runner \in {"runStack", "webStack"}
   /\ \/ targets = <<>>
      \/ \E k \in 1..Len(targets) : targets[k] \in Malformed) =>
     /\ rPc \in {"validate", "refused"}
     /\ requests = 0

\* the place of a url in the list of input urls
InputPosition(url) == CHOOSE k \in 1..Len(urls) : urls[k] = url

\* C26: the results array returned by runStack, runCompany and the web stack
\* route is in input order, whichever items failed to scrape or score.
C26_RunResultsInInputOrder ==
  rPc = "returned" =>
    \A a, b \in 1..Len(allResults) :
       a < b => InputPosition(allResults[a].url) < InputPosition(allResults[b].url)

(***************************************************************************)
(* The autocomplete of the web page (component Home)                       *)
(*                                                                         *)
(* The state is the React state of the component: mode, the three input    *)
(* fields, the debounced query, the suggestions, showSuggestions and       *)
(* selectedIndex (-1 or a 0-based index).  fetches is the number of        *)
(* /api/suggest requests in flight: the effect does not cancel a request,  *)
(* so every answer is applied when it arrives.  threw records that         *)
(* handleSuggestionClick was called with undefined and threw a TypeError.  *)
(***************************************************************************)
MaxSuggestions == 2

MaxFetches == 2

Modes == {"url", "stack", "discover", "find", "category"}

\* the modes that render the input with the dropdown
AutocompleteModes == {"discover", "find", "category"}

\* what the user types
Typed == {"", "s"}

\* the first quick-start value of each mode
QuickStart(m) ==
  IF m = "discover" THEN "stripe.com"
  ELSE IF m = "find" THEN "Salesforce"
  ELSE "Customer Support"

\* entries of an answer of /api/suggest: company suggestions carry a
\* domain, product and category suggestions do not ("" is the absent field)
SuggestionPool ==
  << [name |-> "Alpha", domain |-> "alpha.example"],
     [name |-> "Beta", domain |-> ""],
     [name |-> "Gamma", domain |-> ""] >>

\* data.suggestions || [], and [] when the request fails
SuggestionLists == {SubSeq(SuggestionPool, 1, n) : n \in 0..MaxSuggestions}

\* getCurrentInput()
getCurrentInput(m, c, p, g) ==
  IF m = "discover" THEN c
  ELSE IF m = "find" THEN p
  ELSE IF m = "category" THEN g
  ELSE ""

\* const value = suggestion.domain || suggestion.name, and the name alone
\* for the product and category fields
SuggestionValue(m, suggestion) ==
  IF m = "discover" /\ suggestion.domain # "" THEN suggestion.domain
  ELSE suggestion.name

\* prev < suggestions.length - 1 ? prev + 1 : prev
ArrowDown(prev, length) == IF prev < length - 1 THEN prev + 1 ELSE prev

\* prev > 0 ? prev - 1 : -1
ArrowUp(prev) == IF prev > 0 THEN prev - 1 ELSE -1

InitUi ==
  /\ IdleFusion
  /\ IdleSavings
  /\ IdleDetect
  /\ IdleBatch
  /\ IdleRun
  /\ mode = "discover"
  /\ company = ""
  /\ searchProduct = ""
  /\ categoryName = ""
  /\ debouncedValue = ""
  /\ suggestions = <<>>
  /\ showSuggestions = FALSE
  /\ selectedIndex = -1
  /\ fetches = 1
  /\ threw = FALSE
  /\ uPc = "mounted"

\* onClick of a mode button: setMode(m.id); resetResults(), whose last call
\* is setSuggestions([]); when the mode changed the effect runs again and
\* empties the suggestions (url, stack) or issues a request
SetMode ==
  /\ uPc = "mounted"
  /\ \E m \in Modes :
       /\ mode' = m
       /\ IF m # mode /\ m \in AutocompleteModes
            THEN fetches < MaxFetches /\ fetches' = fetches + 1
            ELSE fetches' = fetches
  /\ suggestions' = <<>>
  /\ UNCHANGED <<company, searchProduct, categoryName, debouncedValue,
                 showSuggestions, selectedIndex, threw, uPc>>
  /\ UNCHANGED <<fusionVars, savingsVars, detectVars, batchVars, runVars>>

\* the timer of useDebounce fires: setDebouncedValue(value), and the effect
\* of [debouncedQuery, mode] runs again
DebounceFires ==
  /\ uPc = "mounted"
  /\ debouncedValue # getCurrentInput(mode, company, searchProduct, categoryName)
  /\ debouncedValue' = getCurrentInput(mode, company, searchProduct, categoryName)
  /\ IF mode \in AutocompleteModes
       THEN fetches < MaxFetches /\ fetches' = fetches + 1 /\ UNCHANGED suggestions
       ELSE suggestions' = <<>> /\ UNCHANGED fetches
  /\ UNCHANGED <<mode, company, searchProduct, categoryName, showSuggestions,
                 selectedIndex, threw, uPc>>
  /\ UNCHANGED <<fusionVars, savingsVars, detectVars, batchVars, runVars>>

\* a request of fetchSuggestions is answered or fails:
\* setSuggestions(data.suggestions || []) or setSuggestions([])
SuggestionsArrive ==
  /\ uPc = "mounted"
  /\ fetches > 0
  /\ fetches' = fetches - 1
  /\ suggestions' \in SuggestionLists
  /\ UNCHANGED <<mode, company, searchProduct, categoryName, debouncedValue,
                 showSuggestions, selectedIndex, threw, uPc>>
  /\ UNCHANGED <<fusionVars, savingsVars, detectVars, batchVars, runVars>>

\* handleInputChange(value)
HandleInputChange ==
  /\ uPc = "mounted"
  /\ mode \in AutocompleteModes
  /\ \E value \in Typed :
       /\ company' = IF mode = "discover" THEN value ELSE company
       /\ searchProduct' = IF mode = "find" THEN value ELSE searchProduct
       /\ categoryName' = IF mode = "category" THEN value ELSE categoryName
  /\ showSuggestions' = TRUE
  /\ selectedIndex' = -1
  /\ UNCHANGED <<mode, debouncedValue, suggestions, fetches, threw, uPc>>
  /\ UNCHANGED <<fusionVars, savingsVars, detectVars, batchVars, runVars>>

\* onFocus of the input
Focus ==
  /\ uPc = "mounted"
  /\ mode \in AutocompleteModes
  /\ showSuggestions' = TRUE
  /\ UNCHANGED <<mode, company, searchProduct, categoryName, debouncedValue,
                 suggestions, selectedIndex, fetches, threw, uPc>>
  /\ UNCHANGED <<fusionVars, savingsVars, detectVars, batchVars, runVars>>

\* handleSuggestionClick(suggestion) for the suggestion at the 0-based
\* index i of the list: undefined when i is not an index of the list, and
\* then reading suggestion.domain throws before any state is set
SuggestionClick(i) ==
  IF i + 1 \in 1..Len(suggestions)
    THEN LET value == SuggestionValue(mode, suggestions[i + 1])
         IN /\ company' = IF mode = "discover" THEN value ELSE company
            /\ searchProduct' =
                 IF mode = "find" THEN suggestions[i + 1].name ELSE searchProduct
            /\ categoryName' =
                 IF mode = "category" THEN suggestions[i + 1].name ELSE categoryName
            /\ showSuggestions' = FALSE
            /\ UNCHANGED threw
    ELSE /\ threw' = TRUE
         /\ UNCHANGED <<company, searchProduct, categoryName, showSuggestions>>

\* onClick of a button of the dropdown
HandleSuggestionClick ==
  /\ uPc = "mounted"
  /\ mode \in AutocompleteModes
  /\ showSuggestions
  /\ \E i \in 0..(Len(suggestions) - 1) : SuggestionClick(i)
  /\ UNCHANGED <<mode, debouncedValue, suggestions, selectedIndex, fetches, uPc>>
  /\ UNCHANGED <<fusionVars, savingsVars, detectVars, batchVars, runVars>>

\* handleKeyDown(e) for the keys it tests
HandleKeyDown ==
  /\ uPc = "mounted"
  /\ mode \in AutocompleteModes
  /\ \E key \in {"ArrowDown", "ArrowUp", "Enter", "Escape"} :
       IF ~showSuggestions \/ Len(suggestions) = 0
         THEN UNCHANGED <<company, searchProduct, categoryName, showSuggestions,
                          selectedIndex, threw>>
       ELSE IF key = "ArrowDown"
         THEN /\ selectedIndex' = ArrowDown(selectedIndex, Len(suggestions))
              /\ UNCHANGED <<company, searchProduct, categoryName,
                             showSuggestions, threw>>
       ELSE IF key = "ArrowUp"
         THEN /\ selectedIndex' = ArrowUp(selectedIndex)
              /\ UNCHANGED <<company, searchProduct, categoryName,
                             showSuggestions, threw>>
       ELSE IF key = "Enter" /\ selectedIndex >= 0
         THEN SuggestionClick(selectedIndex) /\ UNCHANGED selectedIndex
       ELSE IF key = "Escape"
         THEN /\ showSuggestions' = FALSE
              /\ UNCHANGED <<company, searchProduct, categoryName,
                             selectedIndex, threw>>
       ELSE UNCHANGED <<company, searchProduct, categoryName, showSuggestions,
                        selectedIndex, threw>>
  /\ UNCHANGED <<mode, debouncedValue, suggestions, fetches, uPc>>
  /\ UNCHANGED <<fusionVars, savingsVars, detectVars, batchVars, runVars>>

\* handleClickOutside(e), for a click outside the dropdown and the input:
\* both refs are set only while the dropdown is rendered
HandleClickOutside ==
  /\ uPc = "mounted"
  /\ mode \in AutocompleteModes
  /\ showSuggestions
  /\ Len(suggestions) > 0
  /\ showSuggestions' = FALSE
  /\ UNCHANGED <<mode, company, searchProduct, categoryName, debouncedValue,
                 suggestions, selectedIndex, fetches, threw, uPc>>
  /\ UNCHANGED <<fusionVars, savingsVars, detectVars, batchVars, runVars>>

\* onClick of a quick-start button: the field is set and the dropdown closed
PickQuickStart ==
  /\ uPc = "mounted"
  /\ mode \in AutocompleteModes
  /\ company' = IF mode = "discover" THEN QuickStart(mode) ELSE company
  /\ searchProduct' = IF mode = "find" THEN QuickStart(mode) ELSE searchProduct
  /\ categoryName' = IF mode = "category" THEN QuickStart(mode) ELSE categoryName
  /\ showSuggestions' = FALSE
  /\ UNCHANGED <<mode, debouncedValue, suggestions, selectedIndex, fetches,
                 threw, uPc>>
  /\ UNCHANGED <<fusionVars, savingsVars, detectVars, batchVars, runVars>>

NextUi ==
  \/ SetMode
  \/ DebounceFires
  \/ SuggestionsArrive
  \/ HandleInputChange
  \/ Focus
  \/ HandleClickOutside
  \/ HandleSuggestionClick
  \/ HandleKeyDown
  \/ PickQuickStart

SpecUi == InitUi /\ [][NextUi]_vars

(***************************************************************************)
(* Properties of the autocomplete                                          *)
(***************************************************************************)
\* C30: under every interleaving of typing, arrow keys, mode switches and
\* suggestion responses, selectedIndex is -1 or an index of the current
\* suggestions list, and Enter never selects a suggestion that does not
\* exist.
C30_SelectedIndexValid ==
  /\ selectedIndex = -1 \/ selectedIndex \in 0..(Len(suggestions) - 1)
  /\ ~threw

====
